---- MODULE Spec2Model ----
(***************************************************************************)
(* Model of the m365-copilot-bun-proxy request pipeline: the chat and      *)
(* Responses handlers of src/src/proxy/server.ts, the conversation and     *)
(* response stores, the assistant-response builder of                      *)
(* src/src/proxy/openai.ts and the SSE emitters.                           *)
(*                                                                         *)
(* One request is in flight at a time.  A handler is cut into steps at     *)
(* the points where it awaits the upstream: the arrival step runs the      *)
(* handler from its entry to the first upstream chat call, the turn step   *)
(* runs it from the completion of a chat turn to the next upstream call    *)
(* or to the response, and a live stream takes one step per upstream       *)
(* update.  Time passes and stored responses are deleted between steps.    *)
(*                                                                         *)
(* Texts are sequences of tokens: "x" is a visible character, "w" a        *)
(* white-space character and "T" the JSON text of one tool call that       *)
(* names the declared tool.                                                *)
(***************************************************************************)
EXTENDS Integers, Sequences, FiniteSets, TLC

\* ---------------------------------------------------------------- bounds

MaxTime == 1
MaxConversations == 3
MaxResponses == 2
MaxTextLen == 1
MaxStreamEvents == 2
MaxRequests == 2
ConversationTtlTicks == 1
MaxSnapshotLen == 2
MaxStoreTime == 2
MaxObjects == 8
MaxListObjects == 12
MaxArgumentLen == 3
MaxSegments == 3
MaxToolCalls == 2
MaxFrames == 3

\* ------------------------------------------------------------- constants

MaxSafeInteger == 2147483647

\* normalizeLimit: the page size of a list without a usable limit, and the cap.
DefaultListLimit == 20
MaxListLimit == 100

NoId == 0
NoKey == <<>>
NoText == <<"null">>

\* Conversation ids 1..MaxConversations are handed out by createConversation;
\* UpstreamConversation is an id that only the upstream reports in a frame
\* or a stream event, ClientConversation one that only a client supplies.
UpstreamConversation == MaxConversations + 1
ClientConversation == MaxConversations + 2

TransportNames == {"graph", "substrate"}
ToolChoiceModes == {"auto", "none", "required", "function"}
DeclaredTool == "get_time"

Tokens == {"x", "w", "T"}

RECURSIVE SeqsUpTo(_, _)
SeqsUpTo(S, n) ==
  IF n = 0 THEN {<<>>}
  ELSE LET shorter == SeqsUpTo(S, n - 1)
       IN shorter \cup {Append(s, c) : s \in {t \in shorter : Len(t) = n - 1}, c \in S}

Texts == SeqsUpTo(Tokens, MaxTextLen)

\* ------------------------------------------------------- string helpers

IsPrefix(p, s) == Len(p) <= Len(s) /\ SubSeq(s, 1, Len(p)) = p

\* The white space of the texts: "w" in an assistant text, the line feed "NL"
\* in a JSON text.
Whitespace == {"w", "NL"}

\* String.prototype.trim
RECURSIVE TrimStart(_)
TrimStart(s) ==
  IF s # <<>> /\ Head(s) \in Whitespace THEN TrimStart(Tail(s)) ELSE s

RECURSIVE TrimEnd(_)
TrimEnd(s) ==
  IF s # <<>> /\ s[Len(s)] \in Whitespace
  THEN TrimEnd(SubSeq(s, 1, Len(s) - 1)) ELSE s

Trim(s) == TrimEnd(TrimStart(s))

\* The suffix is cut at the emitted length without the startsWith test.
computeTrailingDeltaUnchecked(alreadyEmitted, latestText) ==
  IF latestText = <<>> THEN <<>>
  ELSE IF alreadyEmitted = <<>> THEN latestText
  ELSE IF Len(latestText) < Len(alreadyEmitted) THEN <<>>
  ELSE SubSeq(latestText, Len(alreadyEmitted) + 1, Len(latestText))

\* The whole latest text is returned instead of its suffix.
computeTrailingDeltaWholeText(alreadyEmitted, latestText) ==
  IF latestText = <<>> THEN <<>>
  ELSE IF alreadyEmitted = <<>> THEN latestText
  ELSE IF Len(latestText) < Len(alreadyEmitted) THEN <<>>
  ELSE IF IsPrefix(alreadyEmitted, latestText) THEN latestText
       ELSE <<>>

computeTrailingDelta(alreadyEmitted, latestText) ==
  IF latestText = <<>> THEN <<>>
  ELSE IF alreadyEmitted = <<>> THEN latestText
  ELSE IF Len(latestText) < Len(alreadyEmitted) THEN <<>>
  ELSE IF IsPrefix(alreadyEmitted, latestText)
       THEN SubSeq(latestText, Len(alreadyEmitted) + 1, Len(latestText))
       ELSE <<>>

\* ---------------------------------------------------- conversation store

ConversationExpiry(t) ==
  IF ConversationTtlTicks <= 0 THEN MaxSafeInteger ELSE t + ConversationTtlTicks

ConversationPurgeExpired(entries, t) ==
  [k \in {j \in DOMAIN entries : entries[j].expiresAtUtc > t} |-> entries[k]]

ConversationTryGetUnexpired(entries, key, t) ==
  IF key \in DOMAIN entries THEN entries[key].conversationId ELSE NoId

\* tryGet purges first, so the store it leaves behind is the purged one.
ConversationTryGet(entries, key, t) ==
  LET live == ConversationPurgeExpired(entries, t)
  IN IF key \in DOMAIN live THEN live[key].conversationId ELSE NoId

ConversationSet(entries, key, id, t) ==
  IF key = NoKey \/ id = NoId THEN entries
  ELSE [k \in DOMAIN entries \cup {key} |->
          IF k = key
          THEN [conversationId |-> id, expiresAtUtc |-> ConversationExpiry(t)]
          ELSE entries[k]]

\* -------------------------------------------------------- response store

\* The store is the pair of maps [entries, links].
ResponsePurgeExpired(store, t) ==
  LET liveEntries == {i \in DOMAIN store.entries : store.entries[i].expiresAtUtc > t}
      deadEntries == DOMAIN store.entries \ liveEntries
      liveLinks == {i \in DOMAIN store.links :
                      i \notin deadEntries /\ store.links[i].expiresAtUtc > t}
  IN [entries |-> [i \in liveEntries |-> store.entries[i]],
      links |-> [i \in liveLinks |-> store.links[i]]]

ResponseSet(store, responseId, createdAt, id, t) ==
  LET p == ResponsePurgeExpired(store, t)
      record == [createdAtUnix |-> createdAt, conversationId |-> id,
                 expiresAtUtc |-> ConversationExpiry(t)]
  IN [entries |-> [i \in DOMAIN p.entries \cup {responseId} |->
                     IF i = responseId THEN record ELSE p.entries[i]],
      links |-> IF id = NoId THEN p.links
                ELSE [i \in DOMAIN p.links \cup {responseId} |->
                        IF i = responseId
                        THEN [conversationId |-> id,
                              expiresAtUtc |-> record.expiresAtUtc]
                        ELSE p.links[i]]]

ResponseTryGetConversationLink(store, responseId, t) ==
  LET p == ResponsePurgeExpired(store, t)
  IN IF responseId \in DOMAIN p.links THEN p.links[responseId].conversationId
     ELSE NoId

ResponseTryDeleteEntryOnly(store, responseId, t) ==
  LET p == ResponsePurgeExpired(store, t)
  IN [store |-> [entries |-> [i \in DOMAIN p.entries \ {responseId} |-> p.entries[i]],
                 links |-> p.links],
      deleted |-> responseId \in DOMAIN p.entries \/ responseId \in DOMAIN p.links]

ResponseTryDelete(store, responseId, t) ==
  LET p == ResponsePurgeExpired(store, t)
  IN [store |-> [entries |-> [i \in DOMAIN p.entries \ {responseId} |-> p.entries[i]],
                 links |-> [i \in DOMAIN p.links \ {responseId} |-> p.links[i]]],
      deleted |-> responseId \in DOMAIN p.entries \/ responseId \in DOMAIN p.links]

ResponseTryGet(store, responseId, t) ==
  responseId \in DOMAIN ResponsePurgeExpired(store, t).entries

ResponseSetConversationLink(store, responseId, id, t) ==
  IF id = NoId THEN store
  ELSE LET p == ResponsePurgeExpired(store, t)
       IN [entries |-> p.entries,
           links |-> [i \in DOMAIN p.links \cup {responseId} |->
                        IF i = responseId
                        THEN [conversationId |-> id,
                              expiresAtUtc |-> ConversationExpiry(t)]
                        ELSE p.links[i]]]

normalizeLimit(rawLimit) ==
  IF rawLimit <= 0 THEN DefaultListLimit
  ELSE IF rawLimit > MaxListLimit THEN MaxListLimit ELSE rawLimit

\* clampListLimit: the limit of the query string as an integer; an absent or
\* unparsable one is read like 0.
clampListLimit(raw) ==
  IF raw <= 0 THEN DefaultListLimit
  ELSE IF raw > MaxListLimit THEN MaxListLimit ELSE raw

sortByCreatedAtAsc(entries, ids) ==
  LET RECURSIVE sorted(_)
      sorted(rest) ==
        IF rest = <<>> THEN <<>>
        ELSE LET tail == sorted(Tail(rest))
                 before == Cardinality({n \in DOMAIN tail :
                             entries[tail[n]].createdAtUnix
                               < entries[Head(rest)].createdAtUnix})
             IN SubSeq(tail, 1, before) \o <<Head(rest)>>
                  \o SubSeq(tail, before + 1, Len(tail))
  IN sorted(ids)

\* [...].sort((a, b) => b.createdAtUnix - a.createdAtUnix): Array.prototype.sort
\* is stable, so entries that compare equal keep the order of ids.
sortByCreatedAtDesc(entries, ids) ==
  LET RECURSIVE sorted(_)
      sorted(rest) ==
        IF rest = <<>> THEN <<>>
        ELSE LET tail == sorted(Tail(rest))
                 before == Cardinality({n \in DOMAIN tail :
                             entries[tail[n]].createdAtUnix
                               > entries[Head(rest)].createdAtUnix})
             IN SubSeq(tail, 1, before) \o <<Head(rest)>>
                  \o SubSeq(tail, before + 1, Len(tail))
  IN sorted(ids)

\* list: the purge pass, then the page of the entries, which ids names in the
\* iteration order of the Map.
ResponseList(store, ids, rawLimit, t) ==
  LET p == ResponsePurgeExpired(store, t)
      live == SelectSeq(ids, LAMBDA i : i \in DOMAIN p.entries)
      sorted == sortByCreatedAtDesc(p.entries, live)
      normalizedLimit == normalizeLimit(rawLimit)
      selected == SubSeq(sorted, 1, IF normalizedLimit < Len(sorted)
                                    THEN normalizedLimit ELSE Len(sorted))
  IN [store |-> p,
      limit |-> rawLimit,
      selected |-> selected,
      hasMore |-> Len(sorted) > Len(selected),
      firstId |-> IF selected = <<>> THEN NoId ELSE selected[1],
      lastId |-> IF selected = <<>> THEN NoId ELSE selected[Len(selected)]]

\* ------------------------------------------------ request normalisation

\* parseTooling: toolsDeclared says whether the request lists the function
\* tool; toolChoice is the raw tool_choice ("absent", a mode string, or
\* "function" for the object form that names DeclaredTool).
parseTooling(toolsDeclared, toolChoice) ==
  LET tools == IF toolsDeclared THEN <<DeclaredTool>> ELSE <<>>
      defaultMode == IF tools = <<>> THEN "none" ELSE "auto"
  IN [tools |-> tools,
      toolChoiceMode |-> IF toolChoice \in {"auto", "none", "required", "function"}
                         THEN toolChoice ELSE defaultMode,
      toolChoiceFunctionName |-> IF toolChoice = "function" THEN DeclaredTool ELSE ""]

scopeConversationKey(conversationKey, transportName) ==
  IF conversationKey = "" THEN NoKey ELSE <<transportName, conversationKey>>

\* Only declared tools force buffering; a response_format alone does not.
requiresBufferedIgnoringResponseFormat(request) ==
  Len(request.tooling.tools) > 0

requiresBufferedAssistantResponse(request) ==
  Len(request.tooling.tools) > 0 \/ request.responseFormat

\* ------------------------------------------------------------ JSON texts

\* A JSON text is a sequence of characters: "q" is the double quote, "b" the
\* backslash, "NL" a raw line feed, "1" a digit, "null" the literal null;
\* every other character is an ordinary letter. A JSON value is a node [type, text, members].
JsonChars == {"{", "}", "q", "b", "NL", "n", ":", "1", "null"}

JsonStrings == SeqsUpTo(JsonChars, MaxArgumentLen)

JsonNull == [type |-> "null", text |-> <<>>, members |-> <<>>]
JsonString(text) == [type |-> "string", text |-> text, members |-> <<>>]
JsonNumber(text) == [type |-> "number", text |-> text, members |-> <<>>]
JsonObject(members) == [type |-> "object", text |-> <<>>, members |-> members]
JsonMember(key, value) == [key |-> key, value |-> value]

NoParse == [ok |-> FALSE, node |-> JsonNull, next |-> 0]

RECURSIVE skipJsonWhitespace(_, _)
skipJsonWhitespace(s, i) ==
  IF i <= Len(s) /\ s[i] = "NL" THEN skipJsonWhitespace(s, i + 1) ELSE i

RECURSIVE skipJsonDigits(_, _)
skipJsonDigits(s, i) ==
  IF i <= Len(s) /\ s[i] = "1" THEN skipJsonDigits(s, i + 1) ELSE i

\* The characters of a string literal from position i, which follows the
\* opening quote: a raw line feed is not allowed, a backslash must be followed
\* by a quote, a backslash or the letter n.
RECURSIVE parseJsonStringFrom(_, _, _)
parseJsonStringFrom(s, i, decoded) ==
  IF i > Len(s) THEN NoParse
  ELSE IF s[i] = "q" THEN [ok |-> TRUE, node |-> JsonString(decoded), next |-> i + 1]
  ELSE IF s[i] = "NL" THEN NoParse
  ELSE IF s[i] = "b"
       THEN IF i + 1 > Len(s) THEN NoParse
            ELSE IF s[i + 1] \in {"q", "b"}
                 THEN parseJsonStringFrom(s, i + 2, Append(decoded, s[i + 1]))
            ELSE IF s[i + 1] = "n"
                 THEN parseJsonStringFrom(s, i + 2, Append(decoded, "NL"))
            ELSE NoParse
  ELSE parseJsonStringFrom(s, i + 1, Append(decoded, s[i]))

RECURSIVE parseJsonValue(_, _)
parseJsonValue(s, i) ==
  LET at == skipJsonWhitespace(s, i)
  IN IF at > Len(s) THEN NoParse
     ELSE IF s[at] = "q" THEN parseJsonStringFrom(s, at + 1, <<>>)
     ELSE IF s[at] = "1"
          THEN LET end == skipJsonDigits(s, at)
               IN [ok |-> TRUE, node |-> JsonNumber(SubSeq(s, at, end - 1)),
                   next |-> end]
     ELSE IF s[at] = "null"
          THEN [ok |-> TRUE, node |-> JsonNull, next |-> at + 1]
     ELSE IF s[at] = "{"
          THEN LET inside == skipJsonWhitespace(s, at + 1)
               IN IF inside > Len(s) THEN NoParse
                  ELSE IF s[inside] = "}"
                       THEN [ok |-> TRUE, node |-> JsonObject(<<>>),
                             next |-> inside + 1]
                  ELSE IF s[inside] # "q" THEN NoParse
                  ELSE LET key == parseJsonStringFrom(s, inside + 1, <<>>)
                           colon == skipJsonWhitespace(s, key.next)
                       IN IF ~key.ok \/ colon > Len(s) THEN NoParse
                          ELSE IF s[colon] # ":" THEN NoParse
                          ELSE LET value == parseJsonValue(s, colon + 1)
                                   close == skipJsonWhitespace(s, value.next)
                               IN IF ~value.ok \/ close > Len(s) THEN NoParse
                                  ELSE IF s[close] # "}" THEN NoParse
                                  ELSE [ok |-> TRUE,
                                        node |-> JsonObject(<<JsonMember(
                                                   key.node.text, value.node)>>),
                                        next |-> close + 1]
     ELSE NoParse

\* JSON.parse: one value, with nothing but white space after it.
parseJson(s) ==
  LET value == parseJsonValue(s, 1)
  IN IF value.ok /\ skipJsonWhitespace(s, value.next) = Len(s) + 1
     THEN value ELSE NoParse

\* The characters of a string as JSON.stringify writes them between quotes.
RECURSIVE escapeJsonString(_)
escapeJsonString(text) ==
  IF text = <<>> THEN <<>>
  ELSE (IF Head(text) \in {"q", "b"} THEN <<"b", Head(text)>>
        ELSE IF Head(text) = "NL" THEN <<"b", "n">>
        ELSE <<Head(text)>>) \o escapeJsonString(Tail(text))

\* The characters are written between the quotes as they are.
RECURSIVE stringifyJsonUnescaped(_)
stringifyJsonUnescaped(node) ==
  IF node.type = "null" THEN <<"null">>
  ELSE IF node.type = "number" THEN node.text
  ELSE IF node.type = "string" THEN <<"q">> \o node.text \o <<"q">>
  ELSE IF node.members = <<>> THEN <<"{", "}">>
  ELSE <<"{", "q">> \o node.members[1].key \o <<"q", ":">>
         \o stringifyJsonUnescaped(node.members[1].value) \o <<"}">>

\* JSON.stringify
RECURSIVE stringifyJson(_)
stringifyJson(node) ==
  IF node.type = "null" THEN <<"null">>
  ELSE IF node.type = "number" THEN node.text
  ELSE IF node.type = "string"
       THEN <<"q">> \o escapeJsonString(node.text) \o <<"q">>
  ELSE IF node.members = <<>> THEN <<"{", "}">>
  ELSE <<"{", "q">> \o escapeJsonString(node.members[1].key) \o <<"q", ":">>
         \o stringifyJson(node.members[1].value) \o <<"}">>

\* normalizeArgumentsJson of the extraction path: the arguments node of a
\* candidate is absent (JsonNull), a string, an object or another value.
normalizeArgumentsJson(argumentsNode) ==
  IF argumentsNode.type = "null" THEN <<"{", "}">>
  ELSE IF argumentsNode.type = "string"
       THEN IF Trim(argumentsNode.text) = <<>> THEN <<"{", "}">>
            ELSE LET parsed == parseJson(argumentsNode.text)
                 IN IF parsed.ok /\ parsed.node.type # "null"
                    THEN stringifyJson(parsed.node)
                    ELSE stringifyJson(JsonObject(<<JsonMember(<<"input">>,
                                                               argumentsNode)>>))
  ELSE IF argumentsNode.type = "object" THEN stringifyJson(argumentsNode)
  ELSE stringifyJson(JsonObject(<<JsonMember(<<"value">>, argumentsNode)>>))

\* sanitizeJsonControlCharsInsideStringLiterals: a raw line feed inside a
\* string literal becomes the escape \n; state is <<inString, escaped>>.
RECURSIVE sanitizeFrom(_, _, _)
sanitizeFrom(raw, inString, escaped) ==
  IF raw = <<>> THEN <<>>
  ELSE LET ch == Head(raw)
       IN IF inString
          THEN IF escaped THEN <<ch>> \o sanitizeFrom(Tail(raw), TRUE, FALSE)
               ELSE IF ch = "b" THEN <<ch>> \o sanitizeFrom(Tail(raw), TRUE, TRUE)
               ELSE IF ch = "q" THEN <<ch>> \o sanitizeFrom(Tail(raw), FALSE, FALSE)
               ELSE IF ch = "NL"
                    THEN <<"b", "n">> \o sanitizeFrom(Tail(raw), TRUE, FALSE)
               ELSE <<ch>> \o sanitizeFrom(Tail(raw), TRUE, FALSE)
          ELSE IF ch = "q" THEN <<ch>> \o sanitizeFrom(Tail(raw), TRUE, escaped)
               ELSE <<ch>> \o sanitizeFrom(Tail(raw), FALSE, escaped)

sanitizeJsonControlCharsInsideStringLiterals(raw) == sanitizeFrom(raw, FALSE, FALSE)

\* normalizeSimulatedToolArguments of the simulated path.
normalizeSimulatedToolArguments(argumentsNode) ==
  IF argumentsNode.type # "string"
  THEN stringifyJson(IF argumentsNode.type = "null" THEN JsonObject(<<>>)
                     ELSE argumentsNode)
  ELSE LET raw == Trim(argumentsNode.text)
           repaired == sanitizeJsonControlCharsInsideStringLiterals(raw)
       IN IF raw = <<>> THEN <<"{", "}">>
          ELSE IF parseJson(raw).ok THEN stringifyJson(parseJson(raw).node)
          ELSE IF parseJson(repaired).ok
               THEN stringifyJson(parseJson(repaired).node)
          ELSE stringifyJson(JsonObject(<<JsonMember(<<"input">>,
                                                     JsonString(raw))>>))

\* ------------------------------------------- assistant-response builder

\* An assistant text is a sequence of tokens: prose "x", white space "w" and
\* "NL", the fence "FENCE" (three backquotes), and the tokens that are each the text of one JSON
\* value: "T" is {"tool_calls":[{"name":"get_time","arguments":{}}]}, "Z" the
\* same call with the arguments {"zone":"UTC"}, "U" the same call of the
\* undeclared tool "other", "N" a call without a name.
CallObject(name, arguments) == [name |-> name, arguments |-> arguments]

ZoneArguments == JsonObject(<<JsonMember(<<"zone">>, JsonString(<<"UTC">>))>>)

JsonTokenNode(token) ==
  [tool_calls |->
     <<CallObject(IF token = "U" THEN "other"
                  ELSE IF token = "N" THEN "" ELSE DeclaredTool,
                  IF token = "Z" THEN ZoneArguments ELSE JsonObject(<<>>))>>]

JsonTokens == {"T", "Z", "U", "N"}

\* A candidate parses as JSON exactly when it is the text of one JSON value.
tryParseJsonNode(rawText) ==
  IF Trim(rawText) = <<>> THEN <<>>
  ELSE IF Len(Trim(rawText)) = 1 /\ Trim(rawText)[1] \in JsonTokens
       THEN <<JsonTokenNode(Trim(rawText)[1])>>
       ELSE <<>>

\* rawText.indexOf(token, from), 0 when there is none.
IndexOf(rawText, token, from) ==
  LET found == {n \in from..Len(rawText) : rawText[n] = token}
  IN IF found = {} THEN 0 ELSE CHOOSE n \in found : \A m \in found : n <= m

\* The bodies of the fenced blocks from the cursor on: the fence, the rest of
\* its line up to the line feed, the body, the closing fence.
RECURSIVE fencedCandidates(_, _)
fencedCandidates(rawText, cursor) ==
  IF cursor > Len(rawText) THEN <<>>
  ELSE LET fenceStart == IndexOf(rawText, "FENCE", cursor)
           bodyStart == IF fenceStart = 0 THEN 0
                        ELSE IndexOf(rawText, "NL", fenceStart + 1)
           fenceEnd == IF bodyStart = 0 THEN 0
                       ELSE IndexOf(rawText, "FENCE", bodyStart + 1)
           body == Trim(SubSeq(rawText, bodyStart + 1, fenceEnd - 1))
       IN IF fenceEnd = 0 THEN <<>>
          ELSE (IF body = <<>> THEN <<>> ELSE <<body>>)
                 \o fencedCandidates(rawText, fenceEnd + 1)

\* The whole trimmed text, then the body of every fenced block in order.
enumerateJsonCandidates(rawText) ==
  IF Trim(rawText) = <<>> THEN <<>>
  ELSE <<Trim(rawText)>> \o fencedCandidates(rawText, 1)

\* Every named call is accepted.
tryBuildToolCallNamed(callObject, tooling) ==
  IF callObject.name = "" THEN <<>>
  ELSE <<[name |-> callObject.name,
          argumentsJson |-> normalizeArgumentsJson(callObject.arguments)]>>

tryBuildToolCall(callObject, tooling) ==
  IF callObject.name = "" THEN <<>>
  ELSE IF /\ tooling.toolChoiceMode = "function"
          /\ tooling.toolChoiceFunctionName # ""
          /\ callObject.name # tooling.toolChoiceFunctionName
       THEN <<>>
  ELSE IF /\ Len(tooling.tools) > 0
          /\ \A i \in 1..Len(tooling.tools) : tooling.tools[i] # callObject.name
       THEN <<>>
  ELSE <<[name |-> callObject.name,
          argumentsJson |-> normalizeArgumentsJson(callObject.arguments)]>>

RECURSIVE extractToolCallsFromArray(_, _)
extractToolCallsFromArray(toolCallsArray, tooling) ==
  IF toolCallsArray = <<>> THEN <<>>
  ELSE tryBuildToolCall(Head(toolCallsArray), tooling)
         \o extractToolCallsFromArray(Tail(toolCallsArray), tooling)

extractToolCallsFromNode(node, tooling) ==
  extractToolCallsFromArray(node.tool_calls, tooling)

RECURSIVE tryExtractToolCallsFrom(_, _)
tryExtractToolCallsFrom(candidates, tooling) ==
  IF candidates = <<>> THEN <<>>
  ELSE LET node == tryParseJsonNode(Head(candidates))
           calls == IF node = <<>> THEN <<>>
                    ELSE extractToolCallsFromNode(node[1], tooling)
       IN IF calls # <<>> THEN calls
          ELSE tryExtractToolCallsFrom(Tail(candidates), tooling)

tryExtractToolCalls(assistantText, tooling) ==
  tryExtractToolCallsFrom(enumerateJsonCandidates(assistantText), tooling)

\* JSON.stringify of the first candidate that parses: the canonical text
\* of the node, without the white space around it.
normalizeStructuredContent(assistantText, responseFormat) ==
  IF ~responseFormat THEN assistantText
  ELSE LET parsed == SelectSeq(enumerateJsonCandidates(assistantText),
                               LAMBDA c : tryParseJsonNode(c) # <<>>)
       IN IF parsed = <<>> THEN assistantText ELSE Head(parsed)

\* buildAssistantResponse sets no strictToolErrorMessage on any path: the
\* field stays undefined, written "" here.
buildAssistantResponse(request, assistantText) ==
  LET toolCalls == IF /\ Len(request.tooling.tools) > 0
                      /\ request.tooling.toolChoiceMode # "none"
                   THEN tryExtractToolCalls(assistantText, request.tooling)
                   ELSE <<>>
  IN IF toolCalls # <<>>
     THEN [content |-> NoText, toolCalls |-> toolCalls,
           finishReason |-> "tool_calls", strictToolErrorMessage |-> ""]
     ELSE [content |-> normalizeStructuredContent(assistantText, request.responseFormat),
           toolCalls |-> <<>>, finishReason |-> "stop",
           strictToolErrorMessage |-> ""]

NoAssistantResponse ==
  [content |-> NoText, toolCalls |-> <<>>, finishReason |-> "",
   strictToolErrorMessage |-> ""]

\* ------------------------------------------------ simulated chat payloads

\* A member a JSON object does not have.
Undefined == <<"undefined">>

\* normalizeSimulatedToolCall: a call without a function name is dropped; no
\* other test is made of the name.
normalizeSimulatedToolCall(toolCall) ==
  IF toolCall.name = "" THEN <<>>
  ELSE <<[name |-> toolCall.name,
          arguments |-> normalizeSimulatedToolArguments(toolCall.arguments)]>>

RECURSIVE normalizeSimulatedToolCalls(_)
normalizeSimulatedToolCalls(rawToolCalls) ==
  IF rawToolCalls = <<>> THEN <<>>
  ELSE normalizeSimulatedToolCall(Head(rawToolCalls))
         \o normalizeSimulatedToolCalls(Tail(rawToolCalls))

\* normalizeSimulatedAssistantMessage: content is a text, NoText for null or
\* Undefined; tool_calls = <<>> stands for a message without the member.
normalizeSimulatedAssistantMessage(message) ==
  LET toolCalls == normalizeSimulatedToolCalls(message.tool_calls)
      content == IF toolCalls # <<>> /\ message.content = Undefined
                 THEN NoText ELSE message.content
  IN [content |-> IF content \in {Undefined, NoText} /\ toolCalls = <<>>
                  THEN <<>> ELSE content,
      tool_calls |-> toolCalls]

\* normalizeSimulatedChatChoice: finish_reason = "" stands for a choice
\* without a finish_reason string.
normalizeSimulatedChatChoice(choice) ==
  LET message == normalizeSimulatedAssistantMessage(choice.message)
  IN [message |-> message,
      finish_reason |-> IF choice.finish_reason # "" THEN choice.finish_reason
                        ELSE IF message.tool_calls # <<>> THEN "tool_calls"
                        ELSE "stop"]

\* The assistant response read back from a normalised chat completion: the
\* tool calls and the content of its first choice.
tryBuildAssistantResponseFromChatCompletionPayload(choice) ==
  [toolCalls |-> choice.message.tool_calls,
   content |-> IF choice.message.content = Undefined THEN NoText
               ELSE choice.message.content]

hasUsableSimulatedChatCompletionPayload(choice) ==
  LET built == tryBuildAssistantResponseFromChatCompletionPayload(choice)
  IN \/ built.toolCalls # <<>>
     \/ built.content # NoText /\ Trim(built.content) # <<>>

\* -------------------------------------------------- orchestrator helpers

\* The recovery retries on a conversation the request did not create.
shouldRetryNoAssistantContentOnAnyConversation(transport, createdConversation, chatResult) ==
  /\ transport = "substrate"
  /\ ~chatResult.isSuccess
  /\ chatResult.statusCode = 502
  /\ chatResult.message = "no_assistant_content"

shouldRetrySubstrateNoAssistantContent(transport, createdConversation, chatResult) ==
  /\ transport = "substrate"
  /\ createdConversation
  /\ ~chatResult.isSuccess
  /\ chatResult.statusCode = 502
  /\ chatResult.message = "no_assistant_content"

shouldRetryStrictToolOutput(transport, request, assistantResponse) ==
  /\ transport = "substrate"
  /\ assistantResponse.strictToolErrorMessage # ""
  /\ request.tooling.toolChoiceMode \in {"required", "function"}

\* summarizeUpstreamFailure: the status an upstream failure is answered with.
summarizeUpstreamFailure(statusCode) ==
  IF statusCode >= 400 /\ statusCode <= 599 THEN statusCode ELSE 502

\* ------------------------------------------------------------ the state

VARIABLES
  now,                  \* Date.now(), in ticks
  conversationStore,    \* ConversationStore.entries
  responseStore,        \* ResponseStore: [entries, links]
  nextConversation,     \* the next id createConversation hands out
  nextResponse,         \* the next id createOpenAiResponseId hands out
  pc,                   \* where the handler of the request in flight stands
  request,              \* the parsed request and its conversation selection
  conversationId,       \* the handler's conversationId
  createdConversation,  \* the handler's createdConversation
  responseHeaders,      \* the handler's responseHeaders
  assistantResponse,    \* the last result of buildAssistantResponse
  response,             \* status line and headers of the Response returned
  out,                  \* the frames enqueued on the response stream
  streamState,          \* "none", "open", "closed" or "errored"
  emitted,              \* a live stream's emitted / emittedContent
  streamInitialized,    \* streamSubstrateAsOpenAi's streamInitialized
  streamEvents,         \* upstream updates a live stream has consumed
  responseId,           \* the response id of a streamed Responses reply
  recovered,            \* executeChatTurnWithRecovery has issued its retry
  strictRetried,        \* the strict-tool retry has been issued
  createdAt,            \* nowUnix() taken when a streamed reply began
  served,               \* requests accepted so far
  turnLog,              \* history: one record per upstream chat turn started
  upstreamFailure,      \* history: the upstream failure that ended the request
  resolution,           \* history: how the id was resolved, and the stores before
  upstreamLog,          \* history: what the upstream sent to a live stream
  conversationOwners,   \* history: the transports that created or cached each id
  jsonHeap,             \* the JSON objects of a caller of the response store
  entryResponse,        \* the `response` field of each response-store entry
  entryOrder,           \* the response ids in the iteration order of `entries`
  callerObjects,        \* the objects a caller of the response store holds
  lastCall,             \* history: the last store method called, and its result
  callLog,              \* history: what was set and deleted, and when
  receiver,             \* a createWebSocketReceiver closure, with its history
  tokenProvider         \* a ProxyTokenProvider, its callers and acquisitions

vars == <<now, conversationStore, responseStore, nextConversation, nextResponse,
          pc, request, conversationId, createdConversation, responseHeaders,
          assistantResponse, response, out, streamState, emitted,
          streamInitialized, streamEvents, responseId, recovered, strictRetried,
          createdAt, served, turnLog, upstreamFailure, resolution,
          upstreamLog, conversationOwners, jsonHeap, entryResponse,
          entryOrder, callerObjects, lastCall, callLog, receiver,
          tokenProvider>>

\* The state of the helpers of the upstream clients and of the provider.
clientVars == <<receiver, tokenProvider>>

\* The state of the callers that use the stores directly.
labVars == <<jsonHeap, entryResponse, entryOrder, callerObjects, lastCall,
             callLog, clientVars>>

storeVars == <<conversationStore, responseStore, nextConversation, nextResponse>>

\* The locals of the request handlers, with the histories kept about them.
handlerVars == <<nextConversation, nextResponse, pc, request, conversationId,
                 createdConversation, responseHeaders, assistantResponse,
                 response, out, streamState, emitted, streamInitialized,
                 streamEvents, responseId, recovered, strictRetried, createdAt,
                 served, turnLog, upstreamFailure, resolution, upstreamLog,
                 conversationOwners>>

NoRequest ==
  [api |-> "none", transport |-> "none", stream |-> FALSE,
   tooling |-> parseTooling(FALSE, "absent"), responseFormat |-> FALSE,
   conversationId |-> NoId, conversationKey |-> "",
   forceNewConversation |-> FALSE, previousResponseId |-> NoId]

NoResponse ==
  [status |-> 0, code |-> "", contentType |-> "none",
   conversationIdHeader |-> NoId, createdHeader |-> FALSE,
   message |-> NoAssistantResponse]

NoStores == [conversationStore |-> <<>>,
             responseStore |-> [entries |-> <<>>, links |-> <<>>],
             now |-> 0, nextConversation |-> 1, nextResponse |-> 1,
             conversationOwners |-> <<>>]

NoResolution ==
  [source |-> "none", conversationId |-> NoId, created |-> FALSE, before |-> NoStores]

NoHeaders == [conversationId |-> NoId, created |-> FALSE]

NoFailure == [occurred |-> FALSE, emittedBefore |-> 0]

NoUpstreamLog == [snapshots |-> <<>>, finalText |-> NoText, emittedAtEnd |-> <<>>]

NoCall == [op |-> "none", key |-> NoKey, result |-> NoId, status |-> 0, at |-> 0,
           listed |-> <<>>]

NoCallLog == [sets |-> <<>>, stored |-> <<>>, deletes |-> <<>>]

\* No receiver created yet, and a provider just constructed.
NoReceiver ==
  [created |-> FALSE, queue |-> <<>>, waiters |-> 0, disposed |-> FALSE,
   arrived |-> <<>>, delivered |-> <<>>, queued |-> 0, calls |-> 0,
   ends |-> 0]

MaxCallers == 3

\* A caller of resolveAuthorizationHeader that has not called yet.
NoCaller ==
  [pc |-> "idle", pendingAcquire |-> 0, slotAtEntry |-> 0, started |-> FALSE,
   result |-> <<>>]

NoTokenProvider ==
  [inFlightAcquirePromise |-> 0, promises |-> <<>>,
   callers |-> [caller \in 1..MaxCallers |-> NoCaller], tokenValid |-> FALSE]

Init ==
  /\ now = 0
  /\ conversationStore = <<>>
  /\ responseStore = [entries |-> <<>>, links |-> <<>>]
  /\ nextConversation = 1
  /\ nextResponse = 1
  /\ pc = "idle"
  /\ request = NoRequest
  /\ conversationId = NoId
  /\ createdConversation = FALSE
  /\ responseHeaders = NoHeaders
  /\ assistantResponse = NoAssistantResponse
  /\ response = NoResponse
  /\ out = <<>>
  /\ streamState = "none"
  /\ emitted = <<>>
  /\ streamInitialized = FALSE
  /\ streamEvents = 0
  /\ responseId = NoId
  /\ recovered = FALSE
  /\ strictRetried = FALSE
  /\ createdAt = 0
  /\ served = 0
  /\ turnLog = <<>>
  /\ upstreamFailure = NoFailure
  /\ resolution = NoResolution
  /\ upstreamLog = NoUpstreamLog
  /\ conversationOwners = <<>>
  /\ jsonHeap = <<>>
  /\ entryResponse = <<>>
  /\ entryOrder = <<>>
  /\ callerObjects = {}
  /\ lastCall = NoCall
  /\ callLog = NoCallLog
  /\ receiver = NoReceiver
  /\ tokenProvider = NoTokenProvider

\* The requests a client can send once they pass authorization, JSON
\* decoding, parsing and transport selection: every shape of request on a
\* conversation of its own, and every way of selecting the conversation for
\* the plain request and for the request that forces a tool call.
Toolings ==
  {parseTooling(FALSE, "absent"), parseTooling(TRUE, "absent"),
   parseTooling(TRUE, "none"), parseTooling(TRUE, "required"),
   parseTooling(TRUE, "function"), parseTooling(FALSE, "required")}

Requests ==
  [api : {"chat", "responses"}, transport : TransportNames, stream : BOOLEAN,
   tooling : Toolings, responseFormat : BOOLEAN,
   conversationId : {NoId}, conversationKey : {""},
   forceNewConversation : {FALSE}, previousResponseId : {NoId}]
  \cup
  {r \in [api : {"chat", "responses"}, transport : TransportNames,
          stream : BOOLEAN,
          tooling : {parseTooling(FALSE, "absent"), parseTooling(TRUE, "function")},
          responseFormat : {FALSE},
          conversationId : {NoId, ClientConversation},
          conversationKey : {"", "k"},
          forceNewConversation : BOOLEAN,
          previousResponseId : 0..MaxResponses] :
     /\ r.api = "chat" => r.previousResponseId = NoId
     /\ r.forceNewConversation => r.conversationId = NoId}

\* writeOpenAiError: a JSON error body under fresh headers.
ErrorResponse(statusCode, code) ==
  [status |-> statusCode, code |-> code, contentType |-> "json",
   conversationIdHeader |-> NoId, createdHeader |-> FALSE,
   message |-> NoAssistantResponse]

\* A 200 Response built over the handler's headers.
OkResponse(contentType, headers, message) ==
  [status |-> 200, code |-> "", contentType |-> contentType,
   conversationIdHeader |-> headers.conversationId,
   createdHeader |-> headers.created, message |-> message]

Frame(type, text, finishReason, rid) ==
  [type |-> type, text |-> text, finishReason |-> finishReason,
   responseId |-> rid]

\* ------------------------------------------------- conversation resolution

GraphFailureStatuses == {304, 429, 500}

\* What createConversation can return: Substrate always succeeds with a new
\* id; Graph succeeds, fails, or answers 2xx without an id.
CreateResults(transport) ==
  IF transport = "substrate"
  THEN {[isSuccess |-> TRUE, statusCode |-> 200, conversationId |-> nextConversation]}
  ELSE {[isSuccess |-> TRUE, statusCode |-> 200, conversationId |-> nextConversation],
        [isSuccess |-> TRUE, statusCode |-> 200, conversationId |-> NoId]}
       \cup {[isSuccess |-> FALSE, statusCode |-> st, conversationId |-> NoId] :
               st \in GraphFailureStatuses}

\* The previous-response link is skipped when the request names a key.
usesPreviousResponseUnlessKeyed(r) ==
  /\ r.api = "responses"
  /\ r.conversationId = NoId
  /\ r.previousResponseId # NoId
  /\ r.conversationKey = ""

\* handleResponsesCreate: `!conversationId && parsedRequest.previousResponseId`
usesPreviousResponse(r) ==
  /\ r.api = "responses"
  /\ r.conversationId = NoId
  /\ r.previousResponseId # NoId

\* An unknown previous_response_id falls through to the cache and to create.
isUnknownPreviousResponseNever(useLink, linked) == FALSE

\* handleResponsesCreate: `!previousConversationId`, the 400 branch
isUnknownPreviousResponse(useLink, linked) == useLink /\ linked = NoId

\* The cache is consulted even when the request forces a new conversation.
consultsCacheIgnoringForceNew(r, id, scoped) == id = NoId /\ scoped # NoKey

\* `!conversationSelection.forceNewConversation && scopedConversationKey`
\* under `!conversationId`
consultsCache(r, id, scoped) ==
  id = NoId /\ ~r.forceNewConversation /\ scoped # NoKey

\* handleChat / handleResponsesCreate from selectConversation to the second
\* conversationStore.set: the id the turn will run on, where it came from,
\* and the stores as the lookups leave them.
ResolveConversation(r, createResult) ==
  LET scoped == scopeConversationKey(r.conversationKey, r.transport)
      useLink == usesPreviousResponse(r)
      linked == IF useLink
                THEN ResponseTryGetConversationLink(responseStore, r.previousResponseId, now)
                ELSE NoId
      responses1 == IF useLink THEN ResponsePurgeExpired(responseStore, now)
                    ELSE responseStore
      unknownPrevious == isUnknownPreviousResponse(useLink, linked)
      id1 == IF r.conversationId # NoId THEN r.conversationId ELSE linked
      useCache == ~unknownPrevious /\ consultsCache(r, id1, scoped)
      cached == IF useCache THEN ConversationTryGet(conversationStore, scoped, now)
                ELSE NoId
      conversations1 == IF useCache THEN ConversationPurgeExpired(conversationStore, now)
                        ELSE conversationStore
      id2 == IF id1 # NoId THEN id1 ELSE cached
      create == ~unknownPrevious /\ id2 = NoId
      createOk == create /\ createResult.isSuccess /\ createResult.conversationId # NoId
      id3 == IF create THEN createResult.conversationId ELSE id2
  IN [outcome |-> IF unknownPrevious THEN "unknown_previous"
                  ELSE IF create /\ ~createOk THEN "create_failed"
                  ELSE "resolved",
      conversationId |-> id3,
      createdConversation |-> createOk,
      source |-> IF r.conversationId # NoId THEN "explicit"
                 ELSE IF linked # NoId THEN "link"
                 ELSE IF cached # NoId THEN "cache"
                 ELSE "created",
      create |-> create,
      responseStore |-> responses1,
      conversationStore |-> IF unknownPrevious THEN conversationStore
                            ELSE IF create /\ ~createOk THEN conversations1
                            ELSE ConversationSet(conversations1, scoped, id3, now)]

\* History of one executeChatTurn / chatStream / chatOverStream call: the
\* conversation it runs on, and the frames the client may already hold
\* when it starts (none while the Response has not been returned).
TurnRecord(id, isStartOfSession, responseReturned, enqueued) ==
  [conversationId |-> id, isStartOfSession |-> isStartOfSession,
   emittedBefore |-> IF responseReturned THEN Len(enqueued) ELSE 0]

\* The retry forgets that its conversation is a new one.
recoveryHeadersNotCreated(id) == [conversationId |-> id, created |-> FALSE]

\* executeChatTurnWithRecovery: the headers after the retry conversation
\* has been created.
recoveryHeaders(id) == [conversationId |-> id, created |-> TRUE]

\* History of the upstream failure that ended a request: the frames the
\* client may hold when it happens.
FailureRecord(responseReturned, enqueued) ==
  [occurred |-> TRUE,
   emittedBefore |-> IF responseReturned THEN Len(enqueued) ELSE 0]

ResponsesPreamble(rid) ==
  <<Frame("response.created", <<>>, "", rid),
    Frame("response.in_progress", <<>>, "", rid),
    Frame("response.output_item.added", <<>>, "", rid)>>

\* History of the transports whose requests created a conversation or
\* wrote it to the conversation cache.
RecordOwner(owners, id, transport) ==
  IF id = NoId THEN owners
  ELSE [i \in DOMAIN owners \cup {id} |->
          IF i = id
          THEN (IF i \in DOMAIN owners THEN owners[i] ELSE {}) \cup {transport}
          ELSE owners[i]]

ResetStream ==
  /\ emitted' = <<>>
  /\ streamInitialized' = FALSE
  /\ streamEvents' = 0
  /\ recovered' = FALSE
  /\ strictRetried' = FALSE
  /\ assistantResponse' = NoAssistantResponse

\* ------------------------------------------------------------ the actions

\* A request that fails authorization (401), JSON decoding, parsing or
\* transport selection (400) is answered before any store is touched.
RejectRequest ==
  /\ pc = "idle"
  /\ served < MaxRequests
  /\ \E e \in {<<401, "missing_authorization">>, <<400, "invalid_json">>,
               <<400, "invalid_request">>, <<400, "invalid_transport">>} :
       response' = ErrorResponse(e[1], e[2])
  /\ pc' = "done"
  /\ request' = NoRequest
  /\ conversationId' = NoId
  /\ createdConversation' = FALSE
  /\ responseHeaders' = NoHeaders
  /\ out' = <<>>
  /\ streamState' = "none"
  /\ responseId' = NoId
  /\ turnLog' = <<>>
  /\ resolution' = NoResolution
  /\ upstreamFailure' = NoFailure
  /\ ResetStream
  /\ createdAt' = 0
  /\ served' = served + 1
  /\ upstreamLog' = NoUpstreamLog
  /\ UNCHANGED <<now, storeVars, conversationOwners, labVars>>

\* handleChat / handleResponsesCreate from entry to the first upstream chat
\* call (or to the error that ends the request before it).
ArriveOver(requests) ==
  /\ pc = "idle"
  /\ served < MaxRequests
  /\ served' = served + 1
  /\ upstreamLog' = NoUpstreamLog
  /\ \E r \in requests : \E createResult \in CreateResults(r.transport) :
       LET res == ResolveConversation(r, createResult)
           live == r.stream /\ ~requiresBufferedAssistantResponse(r)
           headers == [conversationId |-> res.conversationId,
                       created |-> res.createdConversation]
           scoped == scopeConversationKey(r.conversationKey, r.transport)
       IN /\ res.create => nextConversation <= MaxConversations
          /\ ~res.create => createResult.conversationId = nextConversation
          /\ request' = r
          /\ resolution' =
               [source |-> IF res.outcome = "resolved" THEN res.source
                           ELSE res.outcome,
                conversationId |-> IF res.outcome = "resolved"
                                   THEN res.conversationId ELSE NoId,
                created |-> res.createdConversation,
                before |-> [conversationStore |-> conversationStore,
                            responseStore |-> responseStore,
                            now |-> now,
                            nextConversation |-> nextConversation,
                            nextResponse |-> nextResponse,
                            conversationOwners |-> conversationOwners]]
          /\ conversationOwners' =
               IF res.outcome # "resolved" THEN conversationOwners
               ELSE IF res.createdConversation \/ scoped # NoKey
               THEN RecordOwner(conversationOwners, res.conversationId, r.transport)
               ELSE conversationOwners
          /\ responseStore' = res.responseStore
          /\ conversationStore' = res.conversationStore
          /\ ResetStream
          /\ upstreamFailure' = IF res.outcome = "create_failed"
                                 THEN FailureRecord(FALSE, <<>>) ELSE NoFailure
          /\ createdAt' = IF /\ res.outcome = "resolved" /\ live
                              /\ r.transport = "substrate" /\ r.api = "responses"
                           THEN now ELSE 0
          /\ IF res.outcome = "unknown_previous"
             THEN /\ response' = ErrorResponse(400, "invalid_previous_response_id")
                  /\ pc' = "done"
                  /\ conversationId' = NoId
                  /\ createdConversation' = FALSE
                  /\ responseHeaders' = NoHeaders
                  /\ out' = <<>>
                  /\ streamState' = "none"
                  /\ responseId' = NoId
                  /\ turnLog' = <<>>
                  /\ UNCHANGED <<nextConversation, nextResponse>>
             ELSE IF res.outcome = "create_failed"
             THEN /\ response' = ErrorResponse(
                                   summarizeUpstreamFailure(createResult.statusCode),
                                   "graph_error")
                  /\ pc' = "done"
                  /\ conversationId' = NoId
                  /\ createdConversation' = FALSE
                  /\ responseHeaders' = NoHeaders
                  /\ out' = <<>>
                  /\ streamState' = "none"
                  /\ responseId' = NoId
                  /\ turnLog' = <<>>
                  /\ UNCHANGED <<nextConversation, nextResponse>>
             ELSE /\ conversationId' = res.conversationId
                  /\ createdConversation' = res.createdConversation
                  /\ responseHeaders' = headers
                  /\ nextConversation' = IF res.createdConversation
                                         THEN nextConversation + 1
                                         ELSE nextConversation
                  /\ turnLog' = <<TurnRecord(
                                  res.conversationId, res.createdConversation,
                                  FALSE,
                                  IF live /\ r.transport = "substrate" /\ r.api = "responses"
                                  THEN ResponsesPreamble(nextResponse) ELSE <<>>)>>
                  /\ IF ~live
                     THEN \* executeChatTurnWithRecovery starts the buffered turn
                          /\ pc' = "turn"
                          /\ response' = NoResponse
                          /\ out' = <<>>
                          /\ streamState' = "none"
                          /\ responseId' = NoId
                          /\ UNCHANGED nextResponse
                     ELSE IF r.transport = "graph"
                     THEN \* graphClient.chatOverStream is awaited first
                          /\ pc' = "graphOpen"
                          /\ response' = NoResponse
                          /\ out' = <<>>
                          /\ streamState' = "none"
                          /\ responseId' = NoId
                          /\ UNCHANGED nextResponse
                     ELSE IF r.api = "chat"
                     THEN \* streamSubstrateAsOpenAi: chatStream starts, 200 is returned
                          /\ pc' = "substrateStream"
                          /\ response' = OkResponse("sse", headers, NoAssistantResponse)
                          /\ out' = <<>>
                          /\ streamState' = "open"
                          /\ responseId' = NoId
                          /\ UNCHANGED nextResponse
                     ELSE \* streamSubstrateAsResponses: three events, then chatStream
                          /\ nextResponse <= MaxResponses
                          /\ pc' = "substrateStream"
                          /\ response' = OkResponse("sse", headers, NoAssistantResponse)
                          /\ out' = ResponsesPreamble(nextResponse)
                          /\ streamState' = "open"
                          /\ responseId' = nextResponse
                          /\ nextResponse' = nextResponse + 1
  /\ UNCHANGED <<now, labVars>>

Arrive == ArriveOver(Requests)

\* Date.now() advances.
Tick ==
  /\ now < MaxTime
  /\ now' = now + 1
  /\ UNCHANGED <<storeVars, pc, request, conversationId, createdConversation,
                 responseHeaders, assistantResponse, response, out, streamState,
                 emitted, streamInitialized, streamEvents, responseId, recovered,
                 strictRetried, createdAt, served, turnLog, upstreamFailure,
                 resolution, upstreamLog, conversationOwners, labVars>>

\* The reply has been handed over and the handler's locals are gone.
Release ==
  /\ pc = "done"
  /\ pc' = "idle"
  /\ request' = NoRequest
  /\ conversationId' = NoId
  /\ createdConversation' = FALSE
  /\ responseHeaders' = NoHeaders
  /\ response' = NoResponse
  /\ out' = <<>>
  /\ streamState' = "none"
  /\ responseId' = NoId
  /\ turnLog' = <<>>
  /\ resolution' = NoResolution
  /\ upstreamFailure' = NoFailure
  /\ ResetStream
  /\ createdAt' = 0
  /\ upstreamLog' = NoUpstreamLog
  /\ UNCHANGED <<now, storeVars, served, conversationOwners, labVars>>

\* ------------------------------------------------------ upstream turns

buildFailure(statusCode, message) ==
  [isSuccess |-> FALSE, statusCode |-> statusCode, assistantText |-> <<>>,
   conversationId |-> NoId, message |-> message]

\* CopilotSubstrateClient.chatCore's result: how it ended (early), the last
\* bot text, the concatenated deltas, whether a frame carried an error, and
\* the conversation id the frames resolved to.
chatCoreResult(early, assistantText, deltaBuilder, responseError, resolvedConversationId) ==
  LET text == IF assistantText = <<>> THEN deltaBuilder ELSE assistantText
  IN CASE early = "missing_token" -> buildFailure(401, "missing_token")
       [] early = "invalid_token" -> buildFailure(400, "invalid_token")
       [] early = "connect_failed" -> buildFailure(502, "request_failed")
       [] early = "handshake_failed" -> buildFailure(502, "handshake_failed")
       [] early = "timeout" -> buildFailure(504, "timed_out")
       [] early = "exception" -> buildFailure(502, "unexpected_failure")
       [] OTHER ->
            IF responseError /\ assistantText = <<>>
            THEN buildFailure(502, "chat_failed")
            ELSE IF text = <<>>
            THEN buildFailure(502, "no_assistant_content")
            ELSE [isSuccess |-> TRUE, statusCode |-> 200, assistantText |-> text,
                  conversationId |-> resolvedConversationId, message |-> ""]

SubstrateEarlyExits ==
  {"missing_token", "invalid_token", "connect_failed", "handshake_failed"}

\* Every result a Substrate turn on conversation id can produce once
\* deltaBuilder is what the frames so far have accumulated.
SubstrateChatResultsOver(texts, id, resolvedIds, deltaBuilder, started) ==
  {chatCoreResult(early, <<>>, deltaBuilder, FALSE, id) :
     early \in (IF started THEN {} ELSE SubstrateEarlyExits) \cup {"timeout", "exception"}}
  \cup {chatCoreResult("none", text, deltaBuilder, responseError, resolved) :
          text \in texts, responseError \in BOOLEAN,
          resolved \in resolvedIds}

SubstrateChatResults(id, resolvedIds, deltaBuilder, started) ==
  SubstrateChatResultsOver(Texts, id, resolvedIds, deltaBuilder, started)

\* CopilotGraphClient.chat: the status of the HTTP response and the text
\* extractCopilotAssistantText finds in its body ("" when it finds none).
GraphChatResults ==
  {[isSuccess |-> TRUE, statusCode |-> 200, assistantText |-> text,
    conversationId |-> NoId, message |-> ""] : text \in Texts}
  \cup {[isSuccess |-> FALSE, statusCode |-> st, assistantText |-> <<>>,
         conversationId |-> NoId, message |-> "graph"] : st \in GraphFailureStatuses}

\* ------------------------------------------------------ buffered replies

\* The stream ends after the content or tool-calls chunk, with no final chunk.
buildAssistantStreamResponseNoFinish(ar) ==
  <<Frame("role", <<>>, "", NoId)>>
  \o (IF Len(ar.toolCalls) > 0 THEN <<Frame("tool_calls", <<>>, "", NoId)>>
      ELSE IF ar.content # NoText /\ Trim(ar.content) # <<>>
           THEN <<Frame("content", ar.content, "", NoId)>>
           ELSE <<>>)
  \o <<Frame("done", <<>>, "", NoId)>>

\* The content chunk is never written.
buildAssistantStreamResponseNoContent(ar) ==
  <<Frame("role", <<>>, "", NoId)>>
  \o (IF Len(ar.toolCalls) > 0 THEN <<Frame("tool_calls", <<>>, "", NoId)>>
      ELSE <<>>)
  \o <<Frame("finish", <<>>, ar.finishReason, NoId), Frame("done", <<>>, "", NoId)>>

\* buildAssistantStreamResponse: the frames of a buffered chat stream.
buildAssistantStreamResponse(ar) ==
  <<Frame("role", <<>>, "", NoId)>>
  \o (IF Len(ar.toolCalls) > 0 THEN <<Frame("tool_calls", <<>>, "", NoId)>>
      ELSE IF ar.content # NoText /\ Trim(ar.content) # <<>>
           THEN <<Frame("content", ar.content, "", NoId)>>
           ELSE <<>>)
  \o <<Frame("finish", <<>>, ar.finishReason, NoId), Frame("done", <<>>, "", NoId)>>

RECURSIVE FunctionCallItemFrames(_, _)
FunctionCallItemFrames(toolCalls, rid) ==
  IF toolCalls = <<>> THEN <<>>
  ELSE <<Frame("response.output_item.added", <<>>, "", rid),
         Frame("response.output_item.done", <<>>, "", rid)>>
       \o FunctionCallItemFrames(Tail(toolCalls), rid)

\* Every output item, function calls included, gets the text delta and
\* text done events.
buildBufferedResponsesStreamResponseTextAlways(ar, rid) ==
  LET content == IF ar.content = NoText THEN <<>> ELSE ar.content
  IN <<Frame("response.created", <<>>, "", rid),
       Frame("response.in_progress", <<>>, "", rid),
       Frame("response.output_item.added", <<>>, "", rid)>>
     \o (IF content # <<>>
         THEN <<Frame("response.output_text.delta", content, "", rid)>>
         ELSE <<>>)
     \o <<Frame("response.output_text.done", content, "", rid),
          Frame("response.output_item.done", <<>>, "", rid),
          Frame("response.completed", <<>>, "", rid)>>

\* buildBufferedResponsesStreamResponse: the frames of a buffered Responses
\* stream.
buildBufferedResponsesStreamResponse(ar, rid) ==
  LET content == IF ar.content = NoText THEN <<>> ELSE ar.content
  IN <<Frame("response.created", <<>>, "", rid),
       Frame("response.in_progress", <<>>, "", rid)>>
     \o (IF Len(ar.toolCalls) > 0 THEN FunctionCallItemFrames(ar.toolCalls, rid)
         ELSE <<Frame("response.output_item.added", <<>>, "", rid)>>
              \o (IF content # <<>>
                  THEN <<Frame("response.output_text.delta", content, "", rid)>>
                  ELSE <<>>)
              \o <<Frame("response.output_text.done", content, "", rid),
                   Frame("response.output_item.done", <<>>, "", rid)>>)
     \o <<Frame("response.completed", <<>>, "", rid)>>

\* tryWriteStrictToolOutputError
tryWriteStrictToolOutputError(ar) ==
  IF ar.strictToolErrorMessage = "" THEN NoResponse
  ELSE ErrorResponse(400, "invalid_tool_output")

\* The end of a buffered or non-streaming request once its turn succeeded:
\* the strict-tool check, then the body or the frames.
FinishBuffered(ar, id, headers) ==
  LET strictToolError == tryWriteStrictToolOutputError(ar)
  IN /\ assistantResponse' = ar
     /\ pc' = "done"
     /\ IF strictToolError # NoResponse
        THEN /\ response' = strictToolError
             /\ out' = <<>>
             /\ streamState' = "none"
             /\ responseId' = NoId
             /\ UNCHANGED <<responseStore, nextResponse>>
        ELSE IF request.api = "chat"
        THEN /\ response' = OkResponse(IF request.stream THEN "sse" ELSE "json",
                                       [headers EXCEPT !.conversationId = id], ar)
             /\ out' = IF request.stream THEN buildAssistantStreamResponse(ar)
                       ELSE <<>>
             /\ streamState' = IF request.stream THEN "closed" ELSE "none"
             /\ responseId' = NoId
             /\ UNCHANGED <<responseStore, nextResponse>>
        ELSE /\ nextResponse <= MaxResponses
             /\ response' = OkResponse(IF request.stream THEN "sse" ELSE "json",
                                       [headers EXCEPT !.conversationId = id], ar)
             /\ out' = IF request.stream
                       THEN buildBufferedResponsesStreamResponse(ar, nextResponse)
                       ELSE <<>>
             /\ streamState' = IF request.stream THEN "closed" ELSE "none"
             /\ responseId' = nextResponse
             /\ responseStore' = ResponseSet(responseStore, nextResponse, now, id, now)
             /\ nextResponse' = nextResponse + 1

\* One awaited executeChatTurn of a buffered or non-streaming request comes
\* back: the recovery retry, the failure reply, the strict-tool retry, or
\* the reply built from the assistant text.
TurnCompletes ==
  /\ pc = "turn"
  /\ \E result \in (IF request.transport = "substrate"
                    THEN SubstrateChatResults(conversationId,
                           {conversationId, UpstreamConversation}, <<>>, FALSE)
                    ELSE GraphChatResults) :
       LET scoped == scopeConversationKey(request.conversationKey, request.transport)
           id == IF result.conversationId # NoId THEN result.conversationId
                 ELSE conversationId
           headers == [responseHeaders EXCEPT !.conversationId = id]
           conversations == IF result.conversationId # NoId
                            THEN ConversationSet(conversationStore, scoped, id, now)
                            ELSE conversationStore
           owners == IF result.conversationId # NoId /\ scoped # NoKey
                     THEN RecordOwner(conversationOwners, id, request.transport)
                     ELSE conversationOwners
           ar == buildAssistantResponse(request, result.assistantText)
       IN IF /\ ~recovered
             /\ shouldRetrySubstrateNoAssistantContent(
                  request.transport, createdConversation, result)
          THEN /\ nextConversation <= MaxConversations
               /\ conversationId' = nextConversation
               /\ nextConversation' = nextConversation + 1
               /\ createdConversation' = TRUE
               /\ responseHeaders' = recoveryHeaders(nextConversation)
               /\ conversationStore' =
                    ConversationSet(conversationStore, scoped, nextConversation, now)
               /\ recovered' = TRUE
               /\ conversationOwners' =
                    RecordOwner(conversationOwners, nextConversation, request.transport)
               /\ turnLog' = Append(turnLog, TurnRecord(nextConversation, TRUE, response # NoResponse, out))
               /\ pc' = "turn"
               /\ UNCHANGED <<responseStore, nextResponse, assistantResponse,
                              response, out, streamState, responseId, strictRetried,
                              upstreamFailure>>
          ELSE IF ~result.isSuccess
          THEN /\ response' = ErrorResponse(
                                summarizeUpstreamFailure(result.statusCode),
                                IF request.transport = "substrate"
                                THEN "substrate_error" ELSE "graph_error")
               /\ pc' = "done"
               /\ upstreamFailure' = FailureRecord(response # NoResponse, out)
               /\ UNCHANGED <<storeVars, conversationId, createdConversation,
                              responseHeaders, assistantResponse, out, streamState,
                              responseId, recovered, strictRetried, turnLog,
                              conversationOwners>>
          ELSE IF /\ ~strictRetried
                  /\ shouldRetryStrictToolOutput(request.transport, request, ar)
          THEN /\ conversationId' = id
               /\ responseHeaders' = headers
               /\ conversationStore' = conversations
               /\ conversationOwners' = owners
               /\ assistantResponse' = ar
               /\ strictRetried' = TRUE
               /\ recovered' = FALSE
               /\ turnLog' = Append(turnLog, TurnRecord(id, createdConversation, response # NoResponse, out))
               /\ pc' = "turn"
               /\ UNCHANGED <<responseStore, nextConversation, nextResponse,
                              createdConversation, response, out, streamState,
                              responseId, upstreamFailure>>
          ELSE /\ conversationId' = id
               /\ responseHeaders' = headers
               /\ conversationStore' = conversations
               /\ conversationOwners' = owners
               /\ FinishBuffered(ar, id, headers)
               /\ UNCHANGED <<nextConversation, createdConversation, recovered,
                              strictRetried, turnLog, upstreamFailure>>
  /\ UNCHANGED <<now, request, emitted, streamInitialized, streamEvents,
                 createdAt, served, resolution, upstreamLog, labVars>>

\* ------------------------------------------------------- live streams

requestVars == <<request, createdConversation, responseHeaders, assistantResponse,
                 recovered, strictRetried, served, turnLog, resolution>>

\* What a Graph stream event can carry as the assistant text so far.
StreamTextsOver(texts, alreadyEmitted) ==
  texts \cup {alreadyEmitted \o <<t>> : t \in Tokens}

StreamTexts(alreadyEmitted) == StreamTextsOver(Texts, alreadyEmitted)

\* One update of chatStream reaches the callback of streamSubstrateAsOpenAi
\* or streamSubstrateAsResponses: a frame that changes the conversation id,
\* carries a delta, or both.
SubstrateStreamUpdateOver(texts) ==
  /\ pc = "substrateStream"
  /\ streamEvents < MaxStreamEvents
  /\ \E frameConversationId \in {NoId, UpstreamConversation}, deltaText \in texts :
       LET changed == /\ frameConversationId # NoId
                      /\ frameConversationId # conversationId
           resolved == IF changed THEN frameConversationId ELSE conversationId
           scoped == scopeConversationKey(request.conversationKey, request.transport)
       IN /\ changed \/ deltaText # <<>>
          /\ conversationId' = resolved
          /\ conversationStore' = ConversationSet(conversationStore, scoped, resolved, now)
          /\ conversationOwners' =
               IF scoped # NoKey
               THEN RecordOwner(conversationOwners, resolved, request.transport)
               ELSE conversationOwners
          /\ IF deltaText = <<>>
             THEN UNCHANGED <<out, emitted, streamInitialized>>
             ELSE /\ emitted' = emitted \o deltaText
                  /\ IF request.api = "chat"
                     THEN /\ streamInitialized' = TRUE
                          /\ out' = out
                               \o (IF streamInitialized THEN <<>>
                                   ELSE <<Frame("role", <<>>, "", NoId)>>)
                               \o <<Frame("content", deltaText, "", NoId)>>
                     ELSE /\ out' = Append(out,
                               Frame("response.output_text.delta", deltaText, "", responseId))
                          /\ UNCHANGED streamInitialized
  /\ streamEvents' = streamEvents + 1
  /\ UNCHANGED <<now, responseStore, nextConversation, nextResponse, pc, response,
                 streamState, responseId, createdAt, upstreamFailure, requestVars,
                 upstreamLog, labVars>>

SubstrateStreamUpdate == SubstrateStreamUpdateOver(Texts)

\* The live stream applies the recovery retry: it opens a fresh conversation
\* and starts a second turn on the stream it has already written to.
SubstrateStreamEndsRetrying ==
  /\ pc = "substrateStream"
  /\ ~recovered
  /\ nextConversation <= MaxConversations
  /\ conversationId' = nextConversation
  /\ nextConversation' = nextConversation + 1
  /\ recovered' = TRUE
  /\ turnLog' = Append(turnLog,
                       TurnRecord(nextConversation, TRUE, response # NoResponse, out))
  /\ UNCHANGED <<now, conversationStore, responseStore, nextResponse, pc, request,
                 createdConversation, responseHeaders, assistantResponse, response,
                 out, streamState, emitted, streamInitialized, streamEvents,
                 responseId, strictRetried, createdAt, served, upstreamFailure,
                 resolution, upstreamLog, conversationOwners, labVars>>

\* chatStream returns to streamSubstrateAsOpenAi / streamSubstrateAsResponses.
SubstrateStreamEndsOver(texts) ==
  /\ pc = "substrateStream"
  /\ \E result \in SubstrateChatResultsOver(texts, conversationId, {conversationId},
                                            emitted, streamEvents > 0) :
       LET trailing == computeTrailingDelta(emitted, result.assistantText)
           failure == IF result.isSuccess THEN upstreamFailure
                      ELSE FailureRecord(response # NoResponse, out)
       IN /\ upstreamLog' =
               IF result.isSuccess
               THEN [upstreamLog EXCEPT !.finalText = result.assistantText,
                                        !.emittedAtEnd = emitted]
               ELSE upstreamLog
          /\ IF request.api = "chat"
             THEN /\ upstreamFailure' = failure
                  /\ out' =
                       IF ~result.isSuccess
                       THEN out
                            \o (IF streamInitialized
                                THEN <<Frame("finish", <<>>, "error", NoId)>> ELSE <<>>)
                            \o <<Frame("error_event", <<>>, "", NoId),
                                 Frame("done", <<>>, "", NoId)>>
                       ELSE out
                            \o (IF streamInitialized THEN <<>>
                                ELSE <<Frame("role", <<>>, "", NoId)>>)
                            \o (IF trailing # <<>>
                                THEN <<Frame("content", trailing, "", NoId)>> ELSE <<>>)
                            \o <<Frame("finish", <<>>, "stop", NoId),
                                 Frame("done", <<>>, "", NoId)>>
                  /\ streamInitialized' = (streamInitialized \/ result.isSuccess)
                  /\ UNCHANGED <<emitted, responseStore>>
             ELSE /\ upstreamFailure' = failure
                  /\ out' =
                       IF ~result.isSuccess
                       THEN Append(out, Frame("error_event", <<>>, "", responseId))
                       ELSE out
                            \o (IF trailing # <<>>
                                THEN <<Frame("response.output_text.delta", trailing, "",
                                             responseId)>>
                                ELSE <<>>)
                            \o <<Frame("response.output_text.done", emitted \o trailing, "",
                                       responseId),
                                 Frame("response.output_item.done", <<>>, "", responseId),
                                 Frame("response.completed", <<>>, "", responseId)>>
                  /\ emitted' = IF result.isSuccess THEN emitted \o trailing ELSE emitted
                  /\ responseStore' =
                       IF result.isSuccess
                       THEN ResponseSet(responseStore, responseId, createdAt,
                                        conversationId, now)
                       ELSE responseStore
                  /\ UNCHANGED streamInitialized
  /\ streamState' = "closed"
  /\ pc' = "done"
  /\ UNCHANGED <<now, conversationStore, nextConversation, nextResponse,
                 conversationId, response, streamEvents, responseId, createdAt,
                 requestVars, conversationOwners, labVars>>

SubstrateStreamEnds == SubstrateStreamEndsOver(Texts)

\* graphClient.chatOverStream answers: the failure reply, or the stream
\* transformGraphStreamToOpenAi / transformGraphStreamToResponses opens.
GraphStreamOpens ==
  /\ pc = "graphOpen"
  /\ \E status \in {200} \cup GraphFailureStatuses :
       IF status # 200
       THEN /\ response' = ErrorResponse(summarizeUpstreamFailure(status), "graph_error")
            /\ pc' = "done"
            /\ upstreamFailure' = FailureRecord(response # NoResponse, out)
            /\ UNCHANGED <<out, streamState, responseId, nextResponse, createdAt>>
       ELSE /\ response' = OkResponse("sse", responseHeaders, NoAssistantResponse)
            /\ pc' = "graphStream"
            /\ streamState' = "open"
            /\ UNCHANGED upstreamFailure
            /\ IF request.api = "chat"
               THEN /\ out' = <<Frame("role", <<>>, "", NoId)>>
                    /\ UNCHANGED <<responseId, nextResponse, createdAt>>
               ELSE /\ nextResponse <= MaxResponses
                    /\ out' = ResponsesPreamble(nextResponse)
                    /\ responseId' = nextResponse
                    /\ nextResponse' = nextResponse + 1
                    /\ createdAt' = now
  /\ UNCHANGED <<now, conversationStore, responseStore, nextConversation,
                 conversationId, emitted, streamInitialized, streamEvents,
                 requestVars, upstreamLog, conversationOwners, labVars>>

\* One event of the Graph stream is read and transformed.
GraphStreamEventOver(texts) ==
  /\ pc = "graphStream"
  /\ streamEvents < MaxStreamEvents
  /\ \E streamConversationId \in {NoId, UpstreamConversation},
        latestAssistantText \in StreamTextsOver(texts, emitted) :
       LET delta == computeTrailingDelta(emitted, latestAssistantText)
           id == IF streamConversationId # NoId THEN streamConversationId
                 ELSE conversationId
           scoped == scopeConversationKey(request.conversationKey, request.transport)
       IN /\ conversationId' = id
          /\ conversationStore' =
               IF request.api = "responses" /\ streamConversationId # NoId
               THEN ConversationSet(conversationStore, scoped, id, now)
               ELSE conversationStore
          /\ conversationOwners' =
               IF /\ request.api = "responses" /\ streamConversationId # NoId
                  /\ scoped # NoKey
               THEN RecordOwner(conversationOwners, id, request.transport)
               ELSE conversationOwners
          /\ upstreamLog' =
               [upstreamLog EXCEPT !.snapshots = Append(@, latestAssistantText)]
          /\ emitted' = emitted \o delta
          /\ out' = IF delta = <<>> THEN out
                    ELSE Append(out,
                           IF request.api = "chat"
                           THEN Frame("content", delta, "", NoId)
                           ELSE Frame("response.output_text.delta", delta, "", responseId))
  /\ streamEvents' = streamEvents + 1
  /\ UNCHANGED <<now, responseStore, nextConversation, nextResponse, pc, response,
                 streamState, streamInitialized, responseId, createdAt,
                 upstreamFailure, requestVars, labVars>>

GraphStreamEvent == GraphStreamEventOver(Texts)

\* The Graph stream ends, by "[DONE]" or by the end of the body.
GraphStreamEnds ==
  /\ pc = "graphStream"
  /\ IF request.api = "chat"
     THEN /\ out' = out \o <<Frame("finish", <<>>, "stop", NoId),
                             Frame("done", <<>>, "", NoId)>>
          /\ UNCHANGED responseStore
     ELSE /\ out' = out \o <<Frame("response.output_text.done", emitted, "", responseId),
                             Frame("response.output_item.done", <<>>, "", responseId),
                             Frame("response.completed", <<>>, "", responseId)>>
          /\ responseStore' = ResponseSet(responseStore, responseId, createdAt,
                                          conversationId, now)
  /\ streamState' = "closed"
  /\ pc' = "done"
  /\ UNCHANGED <<now, conversationStore, nextConversation, nextResponse,
                 conversationId, response, emitted, streamInitialized, streamEvents,
                 responseId, createdAt, upstreamFailure, requestVars, upstreamLog,
                 conversationOwners, labVars>>

\* The catch block stores the response it was building.
GraphStreamFailsStoring ==
  /\ pc = "graphStream"
  /\ IF request.api = "chat"
     THEN /\ streamState' = "errored"
          /\ UNCHANGED <<out, responseStore>>
     ELSE /\ streamState' = "closed"
          /\ out' = Append(out, Frame("error_event", <<>>, "", responseId))
          /\ responseStore' = ResponseSet(responseStore, responseId, createdAt,
                                          conversationId, now)
  /\ pc' = "done"
  /\ upstreamFailure' = FailureRecord(response # NoResponse, out)
  /\ UNCHANGED <<now, conversationStore, nextConversation, nextResponse,
                 conversationId, response, emitted, streamInitialized,
                 streamEvents, responseId, createdAt, requestVars, upstreamLog,
                 conversationOwners, labVars>>

\* Reading the Graph stream throws: transformGraphStreamToResponses catches,
\* writes the error event and closes; transformGraphStreamToOpenAi has no
\* handler, so its start() rejects and the stream is errored.
GraphStreamFails ==
  /\ pc = "graphStream"
  /\ IF request.api = "chat"
     THEN /\ streamState' = "errored"
          /\ UNCHANGED out
     ELSE /\ streamState' = "closed"
          /\ out' = Append(out, Frame("error_event", <<>>, "", responseId))
  /\ pc' = "done"
  /\ upstreamFailure' = FailureRecord(response # NoResponse, out)
  /\ UNCHANGED <<now, storeVars, conversationId, response, emitted,
                 streamInitialized, streamEvents, responseId, createdAt, requestVars,
                 upstreamLog, conversationOwners, labVars>>

\* handleResponsesDelete
DeleteResponse ==
  /\ pc = "idle"
  /\ \E rid \in 1..MaxResponses :
       LET deletion == ResponseTryDelete(responseStore, rid, now)
       IN /\ responseStore' = deletion.store
          /\ response' = IF deletion.deleted
                         THEN OkResponse("json", NoHeaders, NoAssistantResponse)
                         ELSE ErrorResponse(404, "response_not_found")
  /\ request' = [NoRequest EXCEPT !.api = "delete"]
  /\ pc' = "done"
  /\ UNCHANGED <<now, conversationStore, nextConversation, nextResponse,
                 conversationId, createdConversation, responseHeaders,
                 assistantResponse, out, streamState, emitted, streamInitialized,
                 streamEvents, responseId, recovered, strictRetried, createdAt,
                 served, turnLog, upstreamFailure, resolution, upstreamLog,
                 conversationOwners, labVars>>

Next ==
  \/ RejectRequest
  \/ Arrive
  \/ TurnCompletes
  \/ SubstrateStreamUpdate
  \/ SubstrateStreamEnds
  \/ GraphStreamOpens
  \/ GraphStreamEvent
  \/ GraphStreamEnds
  \/ GraphStreamFails
  \/ DeleteResponse
  \/ Release
  \/ Tick

Spec == Init /\ [][Next]_vars

\* ------------------------------------------- live streams, longer texts

\* The same handlers and streams, for one streaming request without tools
\* or response_format, whose upstream sends texts of up to MaxSnapshotLen
\* tokens.
Snapshots == SeqsUpTo(Tokens, MaxSnapshotLen)

LiveRequests ==
  {r \in Requests :
     /\ r.stream
     /\ r.tooling.tools = <<>>
     /\ ~r.responseFormat
     /\ r.conversationId = NoId
     /\ r.previousResponseId = NoId
     /\ ~r.forceNewConversation}

StreamNext ==
  \/ ArriveOver(LiveRequests)
  \/ SubstrateStreamUpdateOver(Snapshots)
  \/ SubstrateStreamEndsOver(Snapshots)
  \/ GraphStreamOpens
  \/ GraphStreamEventOver(Snapshots)
  \/ GraphStreamEnds
  \/ GraphStreamFails

StreamSpec == Init /\ [][StreamNext]_vars

\* ------------------------------------------------------------ the claims

\* What the stores held for a request when it arrived, read off the
\* entries themselves.
LiveLink(store, rid, t) ==
  IF /\ rid \in DOMAIN store.links
     /\ store.links[rid].expiresAtUtc > t
     /\ rid \in DOMAIN store.entries => store.entries[rid].expiresAtUtc > t
  THEN store.links[rid].conversationId
  ELSE NoId

LiveCached(entries, r, t) ==
  IF /\ r.conversationKey # ""
     /\ <<r.transport, r.conversationKey>> \in DOMAIN entries
     /\ entries[<<r.transport, r.conversationKey>>].expiresAtUtc > t
  THEN entries[<<r.transport, r.conversationKey>>].conversationId
  ELSE NoId

IsCompletionRequest == request.api \in {"chat", "responses"}

IsLive == request.stream /\ request.tooling.tools = <<>> /\ ~request.responseFormat

LinkedBefore ==
  IF request.api = "responses" /\ request.previousResponseId # NoId
  THEN LiveLink(resolution.before.responseStore, request.previousResponseId,
                resolution.before.now)
  ELSE NoId

CachedBefore ==
  LiveCached(resolution.before.conversationStore, request, resolution.before.now)

\* C1: in strict mode (tool_choice required or a named function), when no
\* valid tool call is extracted from the assistant text the builder returns
\* empty tool calls, null content, finishReason stop and a
\* strictToolErrorMessage, and the request is answered with HTTP 400
\* invalid_tool_output, never with a 200 completion.
C1_StrictToolOutputRejected ==
  (/\ pc = "done"
   /\ IsCompletionRequest
   /\ request.tooling.tools # <<>>
   /\ request.tooling.toolChoiceMode \in {"required", "function"}
   /\ assistantResponse.finishReason # ""
   /\ assistantResponse.toolCalls = <<>>)
  => /\ assistantResponse.content = NoText
     /\ assistantResponse.finishReason = "stop"
     /\ assistantResponse.strictToolErrorMessage # ""
     /\ response.status = 400
     /\ response.code = "invalid_tool_output"

\* A Responses request with no explicit id whose previous_response_id has a
\* live link.
C2_Linked ==
  /\ request.api = "responses"
  /\ request.conversationId = NoId
  /\ LinkedBefore # NoId

C3_UnknownPreviousRejected ==
  (/\ request.api = "responses"
   /\ request.conversationId = NoId
   /\ request.previousResponseId # NoId
   /\ LinkedBefore = NoId)
  => /\ pc = "done"
     /\ response.status = 400
     /\ response.code = "invalid_previous_response_id"
     /\ turnLog = <<>>
     /\ nextConversation = resolution.before.nextConversation
     /\ nextResponse = resolution.before.nextResponse
     /\ conversationStore = resolution.before.conversationStore
     /\ \A i \in DOMAIN responseStore.entries :
          /\ i \in DOMAIN resolution.before.responseStore.entries
          /\ responseStore.entries[i] = resolution.before.responseStore.entries[i]
     /\ \A i \in DOMAIN responseStore.links :
          /\ i \in DOMAIN resolution.before.responseStore.links
          /\ responseStore.links[i] = resolution.before.responseStore.links[i]

\* The rejected request names a response that was stored and has expired.
C3_Witness ==
  /\ request.api = "responses"
  /\ request.conversationId = NoId
  /\ request.previousResponseId \in DOMAIN resolution.before.responseStore.links
  /\ request.conversationKey = "k"
  /\ LinkedBefore = NoId
  /\ response.status = 400

\* The id the first turn runs on, and the fresh id a create would return.
FirstTurnId == turnLog[1].conversationId

FreshId == resolution.before.nextConversation

C5_Recovered ==
  /\ pc = "done"
  /\ IsCompletionRequest
  /\ request.transport = "substrate"
  /\ Len(turnLog) = 2
  /\ turnLog[1].isStartOfSession
  /\ assistantResponse.finishReason # ""

\* C5 as stated: after the first turn on a conversation newly created over
\* Substrate fails with no assistant content and the retry on a fresh
\* conversation succeeds, the reply is 200, x-m365-conversation-id is the
\* second id and x-m365-conversation-created is true.
C5_ReportsSecondId ==
  C5_Recovered =>
    /\ response.status = 200
    /\ turnLog[2].conversationId # turnLog[1].conversationId
    /\ response.conversationIdHeader = turnLog[2].conversationId
    /\ response.createdHeader

\* C5: ... the reply is 200, x-m365-conversation-created is true, the retry
\* ran on a fresh second conversation, and x-m365-conversation-id is the id
\* the retry turn resolved to: the second id, or the id upstream moved the
\* turn to.
C5_ReportsRetryId ==
  C5_Recovered =>
    /\ response.status = 200
    /\ turnLog[2].conversationId # turnLog[1].conversationId
    /\ turnLog[2].conversationId = FreshId + 1
    /\ response.conversationIdHeader = conversationId
    /\ response.conversationIdHeader \in {turnLog[2].conversationId, UpstreamConversation}
    /\ response.createdHeader

C5_Witness ==
  /\ C5_Recovered
  /\ response.status = 200
  /\ response.conversationIdHeader = turnLog[2].conversationId
  /\ response.createdHeader

\* C6: within one request no upstream chat turn is started or restarted
\* once a byte of the body can have reached the client (the Response that
\* carries the stream has been returned and a frame is enqueued on it), and
\* the frames already written are never rewritten or retracted.
C6_NoTurnAfterFirstByte ==
  [][/\ \A i \in DOMAIN turnLog' : turnLog'[i].emittedBefore = 0
     /\ (pc # "idle" /\ pc' # "idle") => IsPrefix(out, out')]_vars

\* A streaming request whose recovery retry ran, and whose frames followed.
C6_Witness ==
  /\ pc = "done"
  /\ IsCompletionRequest
  /\ request.stream
  /\ Len(turnLog) = 2
  /\ turnLog[2].emittedBefore = 0
  /\ out # <<>>

\* C7: a streaming request that declares tools or a response_format emits
\* no byte until its upstream turn, retry included, has completed and
\* extraction has run on the whole assistant text; only requests with
\* neither are streamed live.
C7_BufferedUntilExtraction ==
  /\ (/\ IsCompletionRequest
      /\ request.stream
      /\ request.tooling.tools # <<>> \/ request.responseFormat
      /\ out # <<>> \/ response # NoResponse)
     => /\ pc = "done"
        /\ out # <<>> => assistantResponse.finishReason # ""
  /\ pc \in {"graphOpen", "graphStream", "substrateStream"} => IsLive

\* A buffered stream of a tool call, written after the recovery retry.
C7_Witness ==
  /\ pc = "done"
  /\ request.stream
  /\ request.tooling.tools # <<>>
  /\ Len(turnLog) = 2
  /\ assistantResponse.toolCalls # <<>>
  /\ out # <<>>

\* C8: in every streamed response an error that occurs after a byte has
\* been emitted appears as an `event: error` frame followed by
\* `data: [DONE]`, and the stream then ends.
C8_StreamErrorThenDone ==
  (/\ pc = "done"
   /\ IsCompletionRequest
   /\ response.contentType = "sse"
   /\ upstreamFailure.occurred
   /\ upstreamFailure.emittedBefore > 0)
  => /\ streamState = "closed"
     /\ Len(out) >= 2
     /\ out[Len(out) - 1].type = "error_event"
     /\ out[Len(out)].type = "done"

\* C9: for a streaming request an upstream failure before any byte of the
\* body has been emitted yields a JSON error body under a 4xx/5xx status,
\* not a 200 SSE stream.
C9_PreStreamFailureIsJsonError ==
  (/\ pc = "done"
   /\ IsCompletionRequest
   /\ request.stream
   /\ upstreamFailure.occurred
   /\ upstreamFailure.emittedBefore = 0)
  => /\ response.contentType = "json"
     /\ response.status \in 400..599

FrameTypes(frames) == [i \in DOMAIN frames |-> frames[i].type]

IsBlank(text) == \A i \in DOMAIN text : text[i] = "w"

\* A buffered streamed chat completion that was answered 200.
C10_BufferedChatStream ==
  /\ pc = "done"
  /\ request.api = "chat"
  /\ request.stream
  /\ ~IsLive
  /\ response.status = 200

\* C10 as stated: the stream is exactly a role chunk, then exactly one
\* content chunk or exactly one tool-calls chunk, then a final chunk with
\* the finish_reason, then `data: [DONE]`.
C10_ExactlyOneMiddleChunk ==
  C10_BufferedChatStream =>
    /\ FrameTypes(out) \in {<<"role", "content", "finish", "done">>,
                           <<"role", "tool_calls", "finish", "done">>}
    /\ out[1].text = <<>>
    /\ out[3].finishReason \in {"stop", "tool_calls"}

\* C10: the stream is exactly a role chunk (no content); then exactly one
\* tool-calls chunk when tool calls were extracted, otherwise exactly one
\* content chunk carrying the whole content, or no chunk when the content
\* is empty or white space only; then a final chunk with the finish_reason;
\* then `data: [DONE]`.
C10_ChunkOrder ==
  C10_BufferedChatStream =>
    LET ar == assistantResponse
        middle == IF ar.toolCalls # <<>> THEN <<"tool_calls">>
                  ELSE IF ar.content = NoText \/ IsBlank(ar.content) THEN <<>>
                  ELSE <<"content">>
    IN /\ FrameTypes(out) = <<"role">> \o middle \o <<"finish", "done">>
       /\ out[1].text = <<>>
       /\ middle = <<"content">> => out[2].text = ar.content
       /\ out[Len(out) - 1].finishReason = ar.finishReason
       /\ ar.finishReason = (IF ar.toolCalls # <<>> THEN "tool_calls" ELSE "stop")
       /\ streamState = "closed"

C10_Witness ==
  /\ C10_BufferedChatStream
  /\ FrameTypes(out) = <<"role", "tool_calls", "finish", "done">>

\* A streamed Responses reply that completed without an error.
C11_StreamedResponsesReply ==
  /\ pc = "done"
  /\ request.api = "responses"
  /\ request.stream
  /\ response.status = 200
  /\ ~upstreamFailure.occurred

\* C11: every successful streamed Responses reply emits response.created,
\* response.in_progress, then for its output item response.output_item.added,
\* zero or more response.output_text.delta, response.output_text.done and
\* response.output_item.done, then response.completed; every event carries
\* the same response id; a function-call output item emits no text delta
\* and no text done event between its added and done events.
C11_EventOrder ==
  C11_StreamedResponsesReply =>
    LET types == FrameTypes(out)
        n == Len(out)
        functionCall == assistantResponse.toolCalls # <<>>
    IN /\ n >= 5
       /\ types[1] = "response.created"
       /\ types[2] = "response.in_progress"
       /\ types[3] = "response.output_item.added"
       /\ types[n] = "response.completed"
       /\ \A i \in 3..(n - 1) :
            CASE types[i] = "response.output_item.added" ->
                   IF functionCall
                   THEN types[i + 1] = "response.output_item.done"
                   ELSE types[i + 1] \in {"response.output_text.delta",
                                          "response.output_text.done"}
              [] types[i] = "response.output_text.delta" ->
                   /\ ~functionCall
                   /\ types[i + 1] \in {"response.output_text.delta",
                                         "response.output_text.done"}
              [] types[i] = "response.output_text.done" ->
                   /\ ~functionCall
                   /\ types[i + 1] = "response.output_item.done"
              [] types[i] = "response.output_item.done" ->
                   \/ types[i + 1] = "response.completed"
                   \/ functionCall /\ types[i + 1] = "response.output_item.added"
              [] OTHER -> FALSE
       /\ responseId # NoId
       /\ \A i \in 1..n : out[i].responseId = responseId

\* A live stream that carried a delta.
C11_Witness ==
  /\ C11_StreamedResponsesReply
  /\ IsLive
  /\ FrameTypes(out) = <<"response.created", "response.in_progress",
                         "response.output_item.added",
                         "response.output_text.delta",
                         "response.output_text.done",
                         "response.output_item.done", "response.completed">>

\* A streamed Responses reply whose response id has been drawn.
C12_StreamedResponses ==
  /\ request.api = "responses"
  /\ request.stream
  /\ responseId # NoId

\* C12: a streamed Responses reply is written to the response store only at
\* stream completion: while the stream is open the store holds no response
\* and no conversation link under its response id; a stream that ends with
\* an error event leaves none; a stream that completes leaves the response
\* announced by response.completed, with its creation time and the
\* conversation id of the stream, and the link to that conversation.
C12_StoredOnlyAtCompletion ==
  LET rid == responseId
      last == out[Len(out)]
      absent == /\ rid \notin DOMAIN responseStore.entries
                /\ rid \notin DOMAIN responseStore.links
  IN /\ (C12_StreamedResponses /\ pc \in {"substrateStream", "graphStream"})
          => absent
     /\ (C12_StreamedResponses /\ pc = "done") =>
          /\ out # <<>>
          /\ last.type \in {"error_event", "response.completed"}
          /\ last.type = "error_event" => absent
          /\ last.type = "response.completed" =>
               /\ last.responseId = rid
               /\ rid \in DOMAIN responseStore.entries
               /\ responseStore.entries[rid].conversationId = conversationId
               /\ IsLive => responseStore.entries[rid].createdAtUnix = createdAt
               /\ rid \in DOMAIN responseStore.links
               /\ responseStore.links[rid].conversationId = conversationId
               /\ responseStore.links[rid].expiresAtUtc
                    = responseStore.entries[rid].expiresAtUtc

\* A live stream ended with an error event while an earlier response is
\* still stored.
C12_Witness ==
  /\ C12_StreamedResponses
  /\ pc = "done"
  /\ out[Len(out)].type = "error_event"
  /\ responseStore.entries # <<>>

\* The concatenation of delta.content (or of the text deltas) over the
\* frames of a stream.
RECURSIVE ContentOf(_)
ContentOf(frames) ==
  IF frames = <<>> THEN <<>>
  ELSE (IF Head(frames).type \in {"content", "response.output_text.delta"}
        THEN Head(frames).text ELSE <<>>)
       \o ContentOf(Tail(frames))

Extending(snapshots) ==
  \A i \in 2..Len(snapshots) : IsPrefix(snapshots[i - 1], snapshots[i])

NonEmpty(snapshots) == SelectSeq(snapshots, LAMBDA t : t # <<>>)

LastOf(snapshots) ==
  IF snapshots = <<>> THEN <<>> ELSE snapshots[Len(snapshots)]

\* A streamed chat response that completed.
C13_CompletedChatStream ==
  /\ pc = "done"
  /\ request.api = "chat"
  /\ request.stream
  /\ response.status = 200
  /\ ~upstreamFailure.occurred

\* The assistant text of the upstream output a live stream consumed: the
\* final text of the Substrate turn, the last text a Graph event carried.
C13_UpstreamText ==
  IF request.transport = "substrate" THEN upstreamLog.finalText
  ELSE LastOf(NonEmpty(upstreamLog.snapshots))

\* The message content the non-stream path returns for that output.
C13_BufferedContent ==
  LET content == IF IsLive
                 THEN buildAssistantResponse(request, C13_UpstreamText).content
                 ELSE assistantResponse.content
  IN IF content = NoText THEN <<>> ELSE content

\* C13 as stated: for every successfully completed streamed chat response
\* the concatenation of delta.content over all chunks equals the message
\* content the non-stream path returns for the same upstream output.
C13_StreamEqualsBuffered ==
  C13_CompletedChatStream => ContentOf(out) = C13_BufferedContent

\* C13: ... the concatenation equals that content provided every text the
\* upstream reported (each Graph snapshot, the final Substrate text) starts
\* with the content streamed before it arrived, and the content of a
\* buffered stream is not white space only; a final Substrate text that
\* does not start with the streamed content adds nothing to the stream, and
\* a buffered stream whose content is white space only streams no content.
C13_StreamEqualsBufferedWhenExtending ==
  C13_CompletedChatStream =>
    IF ~IsLive
    THEN ContentOf(out) = (IF IsBlank(C13_BufferedContent) THEN <<>>
                           ELSE C13_BufferedContent)
    ELSE IF request.transport = "substrate"
    THEN IF IsPrefix(upstreamLog.emittedAtEnd, upstreamLog.finalText)
         THEN ContentOf(out) = C13_BufferedContent
         ELSE ContentOf(out) = upstreamLog.emittedAtEnd
    ELSE Extending(NonEmpty(upstreamLog.snapshots))
           => ContentOf(out) = C13_BufferedContent

\* A live Substrate stream whose final text completed the deltas.
C13_Witness ==
  /\ C13_CompletedChatStream
  /\ IsLive
  /\ request.transport = "substrate"
  /\ upstreamLog.emittedAtEnd # <<>>
  /\ ContentOf(out) = upstreamLog.finalText

\* A live Substrate stream whose turn returned its final assistant text.
C14_TerminatedLiveStream ==
  /\ pc = "done"
  /\ IsCompletionRequest
  /\ IsLive
  /\ request.transport = "substrate"
  /\ upstreamLog.finalText # NoText

\* The frame written right before the finish / done events of the stream.
C14_LastBeforeDone ==
  out[Len(out) - (IF request.api = "chat" THEN 2 ELSE 3)]

C14_Suffix ==
  SubSeq(upstreamLog.finalText, Len(upstreamLog.emittedAtEnd) + 1,
         Len(upstreamLog.finalText))

\* C14 as stated: on termination of a live stream, if the final assistant
\* text is longer than the content emitted so far, the missing suffix is
\* emitted as one last delta before the done/finish events, so the emitted
\* content ends equal to the final assistant text.
C14_SuffixCompletesFinalText ==
  (/\ C14_TerminatedLiveStream
   /\ Len(upstreamLog.finalText) > Len(upstreamLog.emittedAtEnd))
  => /\ C14_LastBeforeDone.type \in {"content", "response.output_text.delta"}
     /\ C14_LastBeforeDone.text = C14_Suffix
     /\ ContentOf(out) = upstreamLog.finalText

\* C14: ... if the final assistant text is longer than the content emitted
\* so far and starts with it, the missing suffix is emitted as one last
\* delta before the done/finish events, so the emitted content ends equal
\* to the final assistant text; a final text that does not start with the
\* emitted content, or equals it, adds no delta.
C14_SuffixWhenExtending ==
  C14_TerminatedLiveStream =>
    IF /\ Len(upstreamLog.finalText) > Len(upstreamLog.emittedAtEnd)
       /\ IsPrefix(upstreamLog.emittedAtEnd, upstreamLog.finalText)
    THEN /\ C14_LastBeforeDone.type \in {"content", "response.output_text.delta"}
         /\ C14_LastBeforeDone.text = C14_Suffix
         /\ ContentOf(out) = upstreamLog.finalText
    ELSE ContentOf(out) = upstreamLog.emittedAtEnd

\* Deltas were emitted, and the final text extends them.
C14_Witness ==
  /\ C14_TerminatedLiveStream
  /\ upstreamLog.emittedAtEnd # <<>>
  /\ Len(upstreamLog.finalText) > Len(upstreamLog.emittedAtEnd)
  /\ ContentOf(out) = upstreamLog.finalText

\* A live Graph stream that has been opened.
C15_GraphStream ==
  /\ IsCompletionRequest
  /\ IsLive
  /\ request.transport = "graph"
  /\ pc \in {"graphStream", "done"}
  /\ response.status = 200

\* C15: for a sequence of cumulative snapshots in which each snapshot
\* extends the previous one as a prefix, the concatenation of the deltas
\* emitted equals the last snapshot; a snapshot that does not start with
\* the text already emitted produces no delta; and the emitted text is never
\* shortened.
C15_DeltasFollowSnapshots ==
  /\ [](/\ C15_GraphStream => ContentOf(out) = emitted
        /\ (C15_GraphStream /\ Extending(upstreamLog.snapshots))
             => emitted = LastOf(upstreamLog.snapshots))
  /\ [][(C15_GraphStream /\ upstreamLog' # upstreamLog /\ pc' = "graphStream") =>
          LET latest == LastOf(upstreamLog'.snapshots)
          IN /\ IsPrefix(emitted, emitted')
             /\ ~IsPrefix(emitted, latest) => (emitted' = emitted /\ out' = out)]_vars

\* Two snapshots, the second extending the first.
C15_Witness ==
  /\ C15_GraphStream
  /\ pc = "done"
  /\ Len(upstreamLog.snapshots) = 2
  /\ upstreamLog.snapshots[1] # <<>>
  /\ Len(upstreamLog.snapshots[2]) > Len(upstreamLog.snapshots[1])
  /\ Extending(upstreamLog.snapshots)
  /\ ContentOf(out) = upstreamLog.snapshots[2]

\* ------------------------------------------- the conversation store alone

\* The store is driven method by method, as its callers may, while the clock
\* runs up to MaxStoreTime.
StoreKeys == {scopeConversationKey(k, t) : k \in {"", "k"}, t \in TransportNames}

StoreIds == 0..MaxConversations

StoreTick ==
  /\ now < MaxStoreTime
  /\ now' = now + 1
  /\ UNCHANGED <<conversationStore, responseStore, handlerVars, labVars>>

\* ConversationStore.set(key, conversationId); blank arguments return early.
ConversationStoreSet ==
  \E key \in StoreKeys, id \in StoreIds :
    /\ conversationStore' = ConversationSet(conversationStore, key, id, now)
    /\ lastCall' = [NoCall EXCEPT !.op = "ConversationStore.set", !.key = key,
                                  !.at = now]
    /\ callLog' = IF key = NoKey \/ id = NoId THEN callLog
                  ELSE [callLog EXCEPT !.sets =
                          [k \in DOMAIN callLog.sets \cup {key} |->
                             IF k = key THEN [conversationId |-> id, at |-> now]
                             ELSE callLog.sets[k]]]
    /\ UNCHANGED <<now, responseStore, handlerVars, clientVars, jsonHeap, entryResponse, entryOrder,
                   callerObjects>>

\* ConversationStore.tryGet(key): a purge pass, then the lookup.
ConversationStoreTryGet ==
  \E key \in StoreKeys :
    /\ conversationStore' = ConversationPurgeExpired(conversationStore, now)
    /\ lastCall' = [NoCall EXCEPT !.op = "ConversationStore.tryGet", !.key = key,
                                  !.result = ConversationTryGet(conversationStore,
                                                                key, now),
                                  !.at = now]
    /\ UNCHANGED <<now, responseStore, handlerVars, clientVars, jsonHeap, entryResponse, entryOrder,
                   callerObjects, callLog>>

ConversationStoreNext ==
  \/ StoreTick
  \/ ConversationStoreSet
  \/ ConversationStoreTryGet

ConversationStoreSpec == Init /\ [][ConversationStoreNext]_vars

\* C16: an entry set at time t under a positive TTL is returned by tryGet
\* before t + TTL and is not returned at or after it; a key never set, or set
\* with a blank argument, returns nothing.
C16_ExpiresAtTtl ==
  lastCall.op = "ConversationStore.tryGet" =>
    /\ ConversationTtlTicks > 0
    /\ lastCall.result =
         IF lastCall.key \in DOMAIN callLog.sets
            /\ lastCall.at < callLog.sets[lastCall.key].at + ConversationTtlTicks
         THEN callLog.sets[lastCall.key].conversationId
         ELSE NoId

\* tryGet at exactly t + TTL, of a key that was set at t, returned nothing, and
\* the entry is gone from the store.
C16_Witness ==
  /\ lastCall.op = "ConversationStore.tryGet"
  /\ lastCall.key \in DOMAIN callLog.sets
  /\ lastCall.at = callLog.sets[lastCall.key].at + ConversationTtlTicks
  /\ lastCall.result = NoId
  /\ lastCall.key \notin DOMAIN conversationStore

\* C17: every read and write of either store applies a purge pass: in the
\* state a tryGet, an effective set, a list or a delete leaves behind, the
\* store that was called holds no entry and no link whose expiresAtUtc is at
\* or before the time of the call.
C17_PurgedAfterEveryCall ==
  /\ ( \/ lastCall.op = "ConversationStore.tryGet"
       \/ /\ lastCall.op = "ConversationStore.set"
          /\ lastCall.key \in DOMAIN callLog.sets
          /\ callLog.sets[lastCall.key].at = lastCall.at )
     => \A k \in DOMAIN conversationStore :
          conversationStore[k].expiresAtUtc > lastCall.at
  /\ lastCall.op \in {"ResponseStore.tryGet", "ResponseStore.set",
                      "ResponseStore.list", "ResponseStore.tryDelete"}
     => /\ \A i \in DOMAIN responseStore.entries :
             responseStore.entries[i].expiresAtUtc > lastCall.at
        /\ \A i \in DOMAIN responseStore.links :
             responseStore.links[i].expiresAtUtc > lastCall.at

\* ----------------------------------------------- the response store alone

\* JSON objects live in jsonHeap, one cell per object, addressed by index. A
\* response body is a cell whose output field holds the address of its output
\* item; an output item is a cell whose output field is NoId. Two references
\* are the same object exactly when they are the same address.
JsonCell(created, status, output) ==
  [created_at |-> created, status |-> status, output |-> output]

\* The value of the object at an address, nested object included.
JsonValue(heap, address) ==
  LET cell == heap[address]
  IN [created_at |-> cell.created_at, status |-> cell.status,
      output |-> IF cell.output = NoId THEN <<>>
                 ELSE <<heap[cell.output].status>>]

cloneJsonValueShallow(heap, address) ==
  [heap |-> Append(heap, heap[address]), address |-> Len(heap) + 1]

RECURSIVE cloneJsonValue(_, _)
cloneJsonValue(heap, address) ==
  IF heap[address].output = NoId
  THEN [heap |-> Append(heap, heap[address]), address |-> Len(heap) + 1]
  ELSE LET child == cloneJsonValue(heap, heap[address].output)
       IN [heap |-> Append(child.heap,
                           [heap[address] EXCEPT !.output = child.address]),
           address |-> Len(child.heap) + 1]

readCreatedAt(heap, address) == heap[address].created_at

\* selected.map(entry => cloneJsonValue(entry.response)), as the map from the
\* response id to the address of its clone.
RECURSIVE cloneSelected(_, _, _)
cloneSelected(heap, entries, selected) ==
  IF selected = {} THEN [heap |-> heap, data |-> <<>>]
  ELSE LET i == CHOOSE r \in selected : TRUE
           rest == cloneSelected(heap, entries, selected \ {i})
           clone == cloneJsonValue(rest.heap, entries[i])
       IN [heap |-> clone.heap, data |-> (i :> clone.address) @@ rest.data]

ResponseIds == 1..MaxResponses

Restrict(f, keys) == [i \in DOMAIN f \cap keys |-> f[i]]

\* The keys of a Map in iteration order: a deleted key leaves, a new key goes
\* last, a key written again keeps its place.
KeepIn(ids, keys) == SelectSeq(ids, LAMBDA i : i \in keys)

MapSet(ids, key) ==
  IF \E n \in DOMAIN ids : ids[n] = key THEN ids ELSE Append(ids, key)

\* The objects a caller holds: the bodies it built and the bodies the store
\* returned to it.
HeldObject(address, origin) == [address |-> address, origin |-> origin]

HeldAddresses == {o.address : o \in callerObjects}

\* A handler builds a response body with one output item.
CallerBuildsResponseOver(room) ==
  /\ Len(jsonHeap) + 2 <= room
  /\ jsonHeap' = jsonHeap \o <<JsonCell(0, "completed", NoId),
                               JsonCell(now, "completed", Len(jsonHeap) + 1)>>
  /\ callerObjects' = callerObjects \cup {HeldObject(Len(jsonHeap) + 2, "caller")}
  /\ UNCHANGED <<now, conversationStore, responseStore, handlerVars, clientVars,
                 entryResponse, entryOrder, lastCall, callLog>>

CallerBuildsResponse == CallerBuildsResponseOver(MaxObjects)

\* A caller writes to an object it holds, or to the output item inside it.
CallerMutates ==
  \E body \in HeldAddresses :
    \E cell \in {body, jsonHeap[body].output} :
      /\ jsonHeap[cell].status = "completed"
      /\ jsonHeap' = [jsonHeap EXCEPT ![cell].status = "mutated"]
      /\ UNCHANGED <<now, conversationStore, responseStore, handlerVars, clientVars,
                     entryResponse, entryOrder, callerObjects, lastCall,
                     callLog>>

\* ResponseStore.set(responseId, response, conversationId)
ResponseStoreSetOver(room, ids) ==
  \E rid \in ResponseIds, body \in HeldAddresses, id \in ids :
    LET clone == cloneJsonValue(jsonHeap, body)
    IN /\ Len(clone.heap) <= room
       /\ responseStore' = ResponseSet(responseStore, rid,
                                       readCreatedAt(jsonHeap, body), id, now)
       /\ jsonHeap' = clone.heap
       /\ entryResponse' =
            [i \in DOMAIN responseStore'.entries |->
               IF i = rid THEN clone.address ELSE entryResponse[i]]
       /\ entryOrder' = MapSet(KeepIn(entryOrder, DOMAIN responseStore'.entries), rid)
       /\ lastCall' = [NoCall EXCEPT !.op = "ResponseStore.set", !.key = rid,
                                     !.at = now]
       /\ callLog' = [callLog EXCEPT
            !.stored = [i \in DOMAIN callLog.stored \cup {rid} |->
                          IF i = rid THEN JsonValue(jsonHeap, body)
                          ELSE callLog.stored[i]],
            !.deletes = Restrict(callLog.deletes, ResponseIds \ {rid})]
       /\ UNCHANGED <<now, conversationStore, handlerVars, clientVars, callerObjects>>

ResponseStoreSet == ResponseStoreSetOver(MaxObjects, {NoId, 1})

\* ResponseStore.tryGet(responseId), as GET /v1/responses/{id} answers it.
ResponseStoreTryGet ==
  \E rid \in ResponseIds :
    LET found == ResponseTryGet(responseStore, rid, now)
        clone == cloneJsonValue(jsonHeap, entryResponse[rid])
    IN /\ found => Len(clone.heap) <= MaxObjects
       /\ responseStore' = ResponsePurgeExpired(responseStore, now)
       /\ entryResponse' = Restrict(entryResponse, DOMAIN responseStore'.entries)
       /\ entryOrder' = KeepIn(entryOrder, DOMAIN responseStore'.entries)
       /\ jsonHeap' = IF found THEN clone.heap ELSE jsonHeap
       /\ callerObjects' = IF found
                           THEN callerObjects
                                  \cup {HeldObject(clone.address, "store")}
                           ELSE callerObjects
       /\ lastCall' = [op |-> "ResponseStore.tryGet", key |-> rid,
                       result |-> IF found
                                  THEN JsonValue(clone.heap, clone.address)
                                  ELSE NoId,
                       status |-> IF found THEN 200 ELSE 404, at |-> now,
                       listed |-> <<>>]
       /\ UNCHANGED <<now, conversationStore, handlerVars, clientVars, callLog>>

\* GET /v1/responses?limit=raw: ResponseStore.list(clampListLimit(raw))
ResponseStoreListOver(room, limits) ==
  \E raw \in limits :
    LET page == ResponseList(responseStore, entryOrder, clampListLimit(raw), now)
        listed == cloneSelected(jsonHeap, entryResponse,
                                {page.selected[n] : n \in DOMAIN page.selected})
    IN /\ Len(listed.heap) <= room
       /\ responseStore' = page.store
       /\ entryResponse' = Restrict(entryResponse, DOMAIN page.store.entries)
       /\ entryOrder' = KeepIn(entryOrder, DOMAIN page.store.entries)
       /\ jsonHeap' = listed.heap
       /\ callerObjects' = callerObjects
                             \cup {HeldObject(listed.data[i], "store") :
                                     i \in DOMAIN listed.data}
       /\ lastCall' = [op |-> "ResponseStore.list", key |-> NoId,
                       result |-> [i \in DOMAIN listed.data |->
                                     JsonValue(listed.heap, listed.data[i])],
                       status |-> 200, at |-> now,
                       listed |-> [limit |-> page.limit,
                                   selected |-> page.selected,
                                   hasMore |-> page.hasMore,
                                   firstId |-> page.firstId,
                                   lastId |-> page.lastId]]
       /\ UNCHANGED <<now, conversationStore, handlerVars, clientVars, callLog>>

ResponseStoreList == ResponseStoreListOver(MaxObjects, {0, MaxResponses})

\* ResponseStore.tryDelete(responseId), as DELETE /v1/responses/{id} answers
\* it; callLog counts the deletions of an id since it was last stored.
ResponseStoreTryDelete ==
  \E rid \in ResponseIds :
    LET p == ResponsePurgeExpired(responseStore, now)
        deletion == ResponseTryDelete(responseStore, rid, now)
        removed == IF rid \in DOMAIN p.entries
                   THEN IF rid \in DOMAIN p.links THEN "both" ELSE "entry"
                   ELSE IF rid \in DOMAIN p.links THEN "link" ELSE "none"
    IN /\ responseStore' = deletion.store
       /\ entryResponse' = Restrict(entryResponse, DOMAIN responseStore'.entries)
       /\ entryOrder' = KeepIn(entryOrder, DOMAIN responseStore'.entries)
       /\ lastCall' = [op |-> "ResponseStore.tryDelete", key |-> rid,
                       result |-> deletion.deleted,
                       status |-> IF deletion.deleted THEN 200 ELSE 404,
                       at |-> now, listed |-> <<>>]
       /\ callLog' = [callLog EXCEPT !.deletes =
            [i \in DOMAIN callLog.deletes \cup {rid} |->
               IF i # rid THEN callLog.deletes[i]
               ELSE IF rid \in DOMAIN callLog.deletes
                    THEN [callLog.deletes[rid] EXCEPT !.count = 2]
                    ELSE [count |-> 1, first |-> removed]]]
       /\ UNCHANGED <<now, conversationStore, handlerVars, clientVars, jsonHeap,
                      callerObjects>>

\* ResponseStore.setConversationLink(responseId, conversationId)
ResponseStoreSetConversationLink ==
  \E rid \in ResponseIds, id \in {NoId, 1} :
    /\ responseStore' = ResponseSetConversationLink(responseStore, rid, id, now)
    /\ entryResponse' = Restrict(entryResponse, DOMAIN responseStore'.entries)
    /\ entryOrder' = KeepIn(entryOrder, DOMAIN responseStore'.entries)
    /\ lastCall' = [NoCall EXCEPT !.op = "ResponseStore.setConversationLink",
                                  !.key = rid, !.at = now]
    /\ callLog' = IF id = NoId THEN callLog
                  ELSE [callLog EXCEPT !.deletes =
                          Restrict(callLog.deletes, ResponseIds \ {rid})]
    /\ UNCHANGED <<now, conversationStore, handlerVars, clientVars, jsonHeap, callerObjects>>

\* ResponseStore.tryGetConversationLink(responseId)
ResponseStoreTryGetConversationLink ==
  \E rid \in ResponseIds :
    /\ responseStore' = ResponsePurgeExpired(responseStore, now)
    /\ entryResponse' = Restrict(entryResponse, DOMAIN responseStore'.entries)
    /\ entryOrder' = KeepIn(entryOrder, DOMAIN responseStore'.entries)
    /\ lastCall' = [NoCall EXCEPT
         !.op = "ResponseStore.tryGetConversationLink", !.key = rid,
         !.result = ResponseTryGetConversationLink(responseStore, rid, now),
         !.at = now]
    /\ UNCHANGED <<now, conversationStore, handlerVars, clientVars, jsonHeap, callerObjects,
                   callLog>>

\* The callers that store bodies, read them back and write to what they hold.
ResponseBodyNext ==
  \/ StoreTick
  \/ CallerBuildsResponse
  \/ CallerMutates
  \/ ResponseStoreSet
  \/ ResponseStoreTryGet
  \/ ResponseStoreList

ResponseBodySpec == Init /\ [][ResponseBodyNext]_vars

\* The callers that store bodies, link and delete them.
ResponseDeleteNext ==
  \/ StoreTick
  \/ CallerBuildsResponse
  \/ ResponseStoreSet
  \/ ResponseStoreTryDelete
  \/ ResponseStoreSetConversationLink
  \/ ResponseStoreTryGetConversationLink

ResponseDeleteSpec == Init /\ [][ResponseDeleteNext]_vars

\* The callers that store bodies and list them, page by page.
ListLimits == {0, 1, 2, MaxListLimit + 1}

ResponseListNext ==
  \/ StoreTick
  \/ CallerBuildsResponseOver(MaxListObjects)
  \/ ResponseStoreSetOver(MaxListObjects, {NoId})
  \/ ResponseStoreListOver(MaxListObjects, ListLimits)

ResponseListSpec == Init /\ [][ResponseListNext]_vars

\* The transports of the requests that had created or cached each conversation
\* id before the request in hand arrived.
OwnersBefore == resolution.before.conversationOwners

\* C18: Graph and Substrate conversations never collide: a request that
\* carries no explicit conversation id never runs a turn on a conversation id
\* that a request on the other transport created or cached, whether the id
\* comes from the conversation-key cache or from a previous-response link.
C18_TransportsNeverCollide ==
  (request.api # "none" /\ request.conversationId = NoId) =>
    \A i \in DOMAIN turnLog :
      turnLog[i].conversationId \in DOMAIN OwnersBefore =>
        OwnersBefore[turnLog[i].conversationId] \subseteq {request.transport}

\* C19: a stored response read before it expires is deep-equal to the body
\* originally passed to set, whatever the caller has since written to the
\* object it supplied or to a body that tryGet or list returned: the body the
\* store holds, the body tryGet returns and every body list returns equal the
\* value set, and the creation time recorded is the one the body carried.
C19_DeepEqualToOriginal ==
  /\ \A i \in DOMAIN responseStore.entries :
       /\ JsonValue(jsonHeap, entryResponse[i]) = callLog.stored[i]
       /\ responseStore.entries[i].createdAtUnix = callLog.stored[i].created_at
  /\ (lastCall.op = "ResponseStore.tryGet" /\ lastCall.status = 200) =>
       lastCall.result = callLog.stored[lastCall.key]
  /\ lastCall.op = "ResponseStore.list" =>
       \A i \in DOMAIN lastCall.result : lastCall.result[i] = callLog.stored[i]

\* tryGet returned the body as it was set, after the caller wrote to the
\* output item of the object it had supplied and to the output item of a body
\* an earlier read had returned.
C19_Witness ==
  /\ lastCall.op = "ResponseStore.tryGet"
  /\ lastCall.status = 200
  /\ lastCall.result = callLog.stored[lastCall.key]
  /\ lastCall.result.output = <<"completed">>
  /\ \A origin \in {"caller", "store"} :
       \E o \in callerObjects :
         /\ o.origin = origin
         /\ jsonHeap[jsonHeap[o.address].output].status = "mutated"

\* C20: after a DELETE of a response id, every later DELETE of that id, with
\* no store of the id in between, is answered 404, whether the first DELETE
\* removed the entry and its link, only one of them, or nothing.
C20_RepeatedDeleteNotFound ==
  (/\ lastCall.op = "ResponseStore.tryDelete"
   /\ callLog.deletes[lastCall.key].count = 2) =>
    /\ lastCall.result = FALSE
    /\ lastCall.status = 404

\* A second DELETE answered 404 after a first DELETE that removed only the
\* conversation link.
C20_Witness ==
  /\ lastCall.op = "ResponseStore.tryDelete"
  /\ callLog.deletes[lastCall.key] = [count |-> 2, first |-> "link"]
  /\ lastCall.status = 404

\* The same after a first DELETE that removed only the response entry.
C20_WitnessEntryOnly ==
  /\ lastCall.op = "ResponseStore.tryDelete"
  /\ callLog.deletes[lastCall.key] = [count |-> 2, first |-> "entry"]
  /\ lastCall.status = 404

\* The page the last list call returned, as response ids, and the place of an
\* id in the insertion order of the entries.
C21_Page == lastCall.listed.selected

C21_Place(id) == CHOOSE n \in DOMAIN entryOrder : entryOrder[n] = id

\* a comes before b: it was created later, or at the same second and was
\* inserted earlier.
C21_Precedes(a, b) ==
  LET entries == responseStore.entries
  IN \/ entries[a].createdAtUnix > entries[b].createdAtUnix
     \/ /\ entries[a].createdAtUnix = entries[b].createdAtUnix
        /\ C21_Place(a) < C21_Place(b)

C21_WitnessDescending ==
  /\ lastCall.op = "ResponseStore.list"
  /\ Len(C21_Page) = 2
  /\ responseStore.entries[C21_Page[1]].createdAtUnix
       > responseStore.entries[C21_Page[2]].createdAtUnix
  /\ C21_Place(C21_Page[1]) > C21_Place(C21_Page[2])

\* ------------------------------------------------- tool-call functions
\* The callers of the functions that turn upstream output into tool calls:
\* each call draws its input, and returns before the next one.

pureVars == <<now, conversationStore, responseStore, nextConversation,
              nextResponse, pc, request, conversationId, createdConversation,
              responseHeaders, assistantResponse, response, out, streamState,
              emitted, streamInitialized, streamEvents, responseId, recovered,
              strictRetried, createdAt, served, turnLog, upstreamFailure,
              resolution, upstreamLog, conversationOwners, jsonHeap,
              entryResponse, entryOrder, callerObjects, callLog>>

\* The toolings parseTooling yields, with two that declare a second tool.
OtherTool == "other"

ToolCallToolings ==
  Toolings \cup
  {[tools |-> <<DeclaredTool, OtherTool>>, toolChoiceMode |-> "auto",
    toolChoiceFunctionName |-> ""],
   [tools |-> <<DeclaredTool, OtherTool>>, toolChoiceMode |-> "function",
    toolChoiceFunctionName |-> DeclaredTool]}

\* The toolings buildAssistantResponse extracts tool calls under.
ExtractionToolings ==
  {t \in ToolCallToolings : Len(t.tools) > 0 /\ t.toolChoiceMode # "none"}

\* The arguments node of an upstream tool call: absent, a number, an object
\* (one of them with a line feed in a member), or any short string.
ArgumentNodes ==
  {JsonNull, JsonNumber(<<"1">>), JsonObject(<<>>), ZoneArguments,
   JsonObject(<<JsonMember(<<"n">>, JsonString(<<"q", "NL">>))>>)}
    \cup {JsonString(text) : text \in JsonStrings}

ToolCallNames == {"", DeclaredTool, OtherTool}

CallObjects == [name : ToolCallNames, arguments : ArgumentNodes]

\* Assistant texts: up to MaxSegments pieces, each prose, a line feed, a JSON
\* value or a fenced block.
Fenced(body) == <<"FENCE", "NL">> \o body \o <<"NL", "FENCE">>

Segments ==
  {<<"x">>, <<"NL">>} \cup {<<t>> : t \in JsonTokens}
    \cup {Fenced(<<t>>) : t \in JsonTokens \cup {"x"}}

RECURSIVE SegmentTexts(_)
SegmentTexts(n) ==
  IF n = 0 THEN {<<>>}
  ELSE SegmentTexts(n - 1)
         \cup {text \o segment : text \in SegmentTexts(n - 1), segment \in Segments}

AssistantTexts == SegmentTexts(MaxSegments)

\* The choices of a simulated chat completion payload.
SimulatedToolCalls == [name : ToolCallNames, arguments : {JsonNull, ZoneArguments}]

SimulatedChoices ==
  [finish_reason : {"", "stop", "tool_calls"},
   message : [content : {Undefined, NoText, <<>>, <<"x">>},
              tool_calls : SeqsUpTo(SimulatedToolCalls, MaxToolCalls)]]

Called(op, key, result) ==
  /\ lastCall' = [NoCall EXCEPT !.op = op, !.key = key, !.result = result]
  /\ UNCHANGED <<pureVars, clientVars>>

CallBuildAssistantResponse ==
  /\ lastCall.op = "none"
  /\ \E text \in AssistantTexts, tooling \in ToolCallToolings :
       Called("buildAssistantResponse", [text |-> text, tooling |-> tooling],
              buildAssistantResponse([NoRequest EXCEPT !.tooling = tooling], text))

CallTryBuildToolCall ==
  /\ lastCall.op = "none"
  /\ \E callObject \in CallObjects, tooling \in ExtractionToolings :
       Called("tryBuildToolCall", [callObject |-> callObject, tooling |-> tooling],
              tryBuildToolCall(callObject, tooling))

CallNormalizeSimulatedToolCall ==
  /\ lastCall.op = "none"
  /\ \E toolCall \in CallObjects :
       Called("normalizeSimulatedToolCall", [toolCall |-> toolCall],
              normalizeSimulatedToolCall(toolCall))

\* The non-streamed simulated chat completion: the normalised choice is the
\* body sent when it is usable.
CallNormalizeSimulatedChatChoice ==
  /\ lastCall.op = "none"
  /\ \E choice \in SimulatedChoices, tooling \in ToolCallToolings :
       LET normalized == normalizeSimulatedChatChoice(choice)
       IN Called("normalizeSimulatedChatChoice",
                 [choice |-> choice, tooling |-> tooling],
                 [choice |-> normalized,
                  usable |-> hasUsableSimulatedChatCompletionPayload(normalized)])

CallReturns ==
  /\ lastCall.op \in {"buildAssistantResponse", "tryBuildToolCall",
                      "normalizeSimulatedToolCall", "normalizeSimulatedChatChoice",
                      "chatCore", "resolveAuthorizationHeader"}
  /\ lastCall' = NoCall
  /\ UNCHANGED <<pureVars, clientVars>>

ToolCallNext ==
  \/ CallBuildAssistantResponse
  \/ CallTryBuildToolCall
  \/ CallNormalizeSimulatedToolCall
  \/ CallNormalizeSimulatedChatChoice
  \/ CallReturns

ToolCallSpec == Init /\ [][ToolCallNext]_vars

\* The simulated chat completion a client is sent by the last call.
C22_SimulatedBody ==
  IF lastCall.op = "normalizeSimulatedChatChoice" /\ lastCall.result.usable
  THEN <<lastCall.result.choice>> ELSE <<>>

\* C22: every response with finish_reason tool_calls has content null, and a
\* response that carries at least one tool call has content null and finish
\* reason tool_calls, both as buildAssistantResponse builds it for the normal
\* and streamed paths and as the simulated path normalises it.
C22_ToolCallsMeanNullContent ==
  /\ lastCall.op = "buildAssistantResponse" =>
       /\ lastCall.result.toolCalls # <<>> =>
            /\ lastCall.result.content = NoText
            /\ lastCall.result.finishReason = "tool_calls"
       /\ lastCall.result.finishReason = "tool_calls" =>
            lastCall.result.content = NoText
  /\ \A i \in DOMAIN C22_SimulatedBody :
       /\ C22_SimulatedBody[i].message.tool_calls # <<>> =>
            /\ C22_SimulatedBody[i].message.content = NoText
            /\ C22_SimulatedBody[i].finish_reason = "tool_calls"
       /\ C22_SimulatedBody[i].finish_reason = "tool_calls" =>
            C22_SimulatedBody[i].message.content = NoText

C23_Declared(name, tooling) ==
  /\ name # ""
  /\ \E i \in DOMAIN tooling.tools : tooling.tools[i] = name
  /\ tooling.toolChoiceMode = "function" => name = tooling.toolChoiceFunctionName

C23_WitnessForced ==
  /\ lastCall.op = "buildAssistantResponse"
  /\ lastCall.key.text = <<"U">>
  /\ lastCall.key.tooling.tools = <<DeclaredTool, OtherTool>>
  /\ lastCall.key.tooling.toolChoiceMode = "function"
  /\ lastCall.result.toolCalls = <<>>

\* The simulated path returns a call of a tool the request does not declare.
C23_WitnessSimulated ==
  /\ lastCall.op = "normalizeSimulatedChatChoice"
  /\ lastCall.result.usable
  /\ lastCall.key.tooling.tools = <<>>
  /\ Len(lastCall.result.choice.message.tool_calls) = 1
  /\ lastCall.result.choice.message.tool_calls[1].name = OtherTool

\* The calls of the JSON value a token stands for that the tooling accepts.
C24_Accepted(token, tooling) ==
  SelectSeq(<<[name |-> JsonTokenNode(token).tool_calls[1].name,
               argumentsJson |-> IF token = "Z"
                                 THEN <<"{", "q", "zone", "q", ":", "q", "UTC", "q", "}">>
                                 ELSE <<"{", "}">>]>>,
            LAMBDA c : C23_Declared(c.name, tooling))

\* C24: extraction returns the accepted tool calls of the first candidate, in
\* priority order, that yields at least one: the whole text when it is a JSON
\* value with an accepted call, else the first fenced block with one; and a
\* valid tool-call JSON object that follows unparseable placeholder text in
\* the same message is extracted with its own arguments.
C24_FirstAcceptedCandidateWins ==
  (lastCall.op = "buildAssistantResponse"
     /\ lastCall.key.tooling \in ExtractionToolings) =>
    LET text == lastCall.key.text
        tooling == lastCall.key.tooling
        toolCalls == lastCall.result.toolCalls
    IN /\ \A t \in JsonTokens :
            (text = <<t>> /\ C24_Accepted(t, tooling) # <<>>) =>
              toolCalls = C24_Accepted(t, tooling)
       /\ \A t, u \in JsonTokens :
            (text = Fenced(<<t>>) \o Fenced(<<u>>)) =>
              toolCalls = IF C24_Accepted(t, tooling) # <<>>
                          THEN C24_Accepted(t, tooling)
                          ELSE C24_Accepted(u, tooling)
       /\ \A t \in JsonTokens :
            (text = <<"x", "NL", t>> /\ C24_Accepted(t, tooling) # <<>>) =>
              toolCalls = C24_Accepted(t, tooling)

C25_WitnessNotJson ==
  /\ lastCall.op = "tryBuildToolCall"
  /\ lastCall.key.callObject.arguments = JsonString(<<"q", "n">>)
  /\ lastCall.result # <<>>
  /\ parseJson(lastCall.result[1].argumentsJson).node
       = JsonObject(<<JsonMember(<<"input">>, JsonString(<<"q", "n">>))>>)

\* Missing arguments and object arguments.
C25_WitnessMissing ==
  /\ lastCall.op = "normalizeSimulatedToolCall"
  /\ lastCall.key.toolCall.arguments = JsonNull
  /\ lastCall.result # <<>>
  /\ lastCall.result[1].arguments = <<"{", "}">>

C25_WitnessObject ==
  /\ lastCall.op = "tryBuildToolCall"
  /\ lastCall.key.callObject.arguments.type = "object"
  /\ lastCall.key.callObject.arguments.members # <<>>
  /\ lastCall.key.callObject.arguments.members[1].value.text = <<"q", "NL">>
  /\ lastCall.result # <<>>
  /\ parseJson(lastCall.result[1].argumentsJson).node = lastCall.key.callObject.arguments

\* ------------------------------------------------------ Substrate turns
\* One Substrate turn, event by event: how the connection attempt ends, how
\* each sendFrame ends, and what receiver.next resolves to each time it is
\* awaited: a payload of one frame, or null because the timer fired or the
\* socket closed.

SendOutcomes == {"sent", "timeout", "other"}

\* The frames an upstream sends, by name.
SubstrateFrames ==
  {"delta", "delta2", "text", "text2", "error_frame", "failed_result",
   "failed_message", "apology", "update", "completed", "completed_message",
   "completed3", "completed7"}

NullEvents == {"timeout", "closed"}

ReceiveEvents == SubstrateFrames \cup NullEvents

NoFrameField ==
  [text |-> <<>>, resultMessage |-> <<>>, delta |-> <<>>, error |-> FALSE,
   resultValue |-> "", type |-> 0]

\* The JSON envelope of each frame: the text of its last bot message, its
\* result.message, the writeAtCursor of its arguments, whether it has an
\* error string, its result.value and its integer type (0: none).
SubstrateFrame(name) ==
  CASE name = "delta" -> [NoFrameField EXCEPT !.delta = <<"d">>, !.type = 1]
    [] name = "delta2" -> [NoFrameField EXCEPT !.delta = <<"e">>, !.type = 1]
    [] name = "text" -> [NoFrameField EXCEPT !.text = <<"x">>, !.type = 1]
    [] name = "text2" -> [NoFrameField EXCEPT !.text = <<"y">>, !.type = 1]
    [] name = "error_frame" -> [NoFrameField EXCEPT !.error = TRUE]
    [] name = "failed_result" -> [NoFrameField EXCEPT !.resultValue = "Failure"]
    [] name = "failed_message" ->
         [NoFrameField EXCEPT !.resultValue = "Failure", !.resultMessage = <<"m">>]
    [] name = "apology" ->
         [NoFrameField EXCEPT !.resultValue = "APOLOGYRESPONSERETURNED"]
    [] name = "update" -> [NoFrameField EXCEPT !.type = 1]
    [] name = "completed" ->
         [NoFrameField EXCEPT !.resultValue = "Success", !.type = 2]
    [] name = "completed_message" ->
         [NoFrameField EXCEPT !.resultValue = "Success",
                              !.resultMessage = <<"m">>, !.type = 2]
    [] name = "completed3" -> [NoFrameField EXCEPT !.type = 3]
    [] OTHER -> [NoFrameField EXCEPT !.type = 7]

\* String.prototype.toLowerCase on the result values above.
toLowerCase(value) ==
  CASE value = "Success" -> "success"
    [] value = "APOLOGYRESPONSERETURNED" -> "apologyresponsereturned"
    [] value = "Failure" -> "failure"
    [] OTHER -> value

\* The result value is compared as written.
isSubstrateResultSuccessExact(resultValue) ==
  resultValue \in {"Success", "ApologyResponseReturned"}

isSubstrateResultSuccess(resultValue) ==
  toLowerCase(resultValue) \in {"success", "apologyresponsereturned"}

\* The bot message text alone.
extractBotMessageText(frame) == frame.text

\* extractSubstrateAssistantText: the bot message text, else result.message.
extractSubstrateAssistantText(frame) ==
  IF frame.text # <<>> THEN frame.text ELSE frame.resultMessage

extractSubstrateDeltaText(frame) == frame.delta

\* Type 7 (close) is not taken as terminal.
isCompletionFrameType(frameType) == frameType \in {2, 3}

isTerminalFrameType(frameType) == frameType \in {2, 3, 7}

\* A frame arrives FrameGapTicks after it is awaited; the timer of
\* receiver.next fires InvocationTimeoutTicks after it is set.
FrameGapTicks == 1
InvocationTimeoutTicks == 2

\* onStreamUpdate: absent (chat), or a handler that returns or throws.
StreamHandlers == {"none", "returns", "throws"}

SubstrateTurns ==
  [connect : {"timeout", "error"}, sendHandshake : {"sent"},
   handshake : {"frame"}, sendInvocation : {"sent"}, frames : {<<>>},
   onStreamUpdate : {"none"}]
  \cup [connect : {"open"}, sendHandshake : SendOutcomes \ {"sent"},
        handshake : {"frame"}, sendInvocation : {"sent"}, frames : {<<>>},
        onStreamUpdate : {"none"}]
  \cup [connect : {"open"}, sendHandshake : {"sent"},
        handshake : {"error_frame", "timeout", "closed"},
        sendInvocation : {"sent"}, frames : {<<>>}, onStreamUpdate : {"none"}]
  \cup [connect : {"open"}, sendHandshake : {"sent"}, handshake : {"frame"},
        sendInvocation : SendOutcomes \ {"sent"}, frames : {<<>>},
        onStreamUpdate : {"none"}]
  \cup [connect : {"open"}, sendHandshake : {"sent"}, handshake : {"frame"},
        sendInvocation : {"sent"}, frames : SeqsUpTo(ReceiveEvents, MaxFrames),
        onStreamUpdate : StreamHandlers]

\* The locals of chatCore as the receive loop starts, with the history of
\* the loop: the payloads it took, the updates it passed on, the ticks it
\* waited, and how it ended.
LoopStart ==
  [assistantText |-> <<>>, deltaBuilder |-> <<>>, responseError |-> FALSE,
   taken |-> <<>>, updates |-> <<>>, elapsed |-> 0, end |-> "running"]

\* One frame of a payload, in the order of the loop body.
processFrame(frame, loop, onStreamUpdate) ==
  LET extracted == extractSubstrateAssistantText(frame)
      deltaText == IF extracted # <<>> THEN <<>>
                   ELSE extractSubstrateDeltaText(frame)
      throws == deltaText # <<>> /\ onStreamUpdate = "throws"
      resultFailed == /\ frame.resultValue # ""
                      /\ ~isSubstrateResultSuccess(frame.resultValue)
  IN IF throws
     THEN [loop EXCEPT !.deltaBuilder = @ \o deltaText, !.end = "thrown"]
     ELSE [loop EXCEPT
             !.assistantText = IF extracted # <<>> THEN extracted ELSE @,
             !.deltaBuilder = @ \o deltaText,
             !.updates = IF deltaText # <<>> /\ onStreamUpdate = "returns"
                         THEN Append(@, deltaText) ELSE @,
             !.responseError = @ \/ frame.error \/ resultFailed,
             !.end = IF isTerminalFrameType(frame.type) THEN "completed" ELSE @]

\* The receive loop: a null payload, a terminal frame and an exception end
\* it; a socket that is no longer open ends it when the events run out.
RECURSIVE receiveLoop(_, _, _)
receiveLoop(frames, loop, onStreamUpdate) ==
  IF loop.end # "running" THEN loop
  ELSE IF frames = <<>> THEN [loop EXCEPT !.end = "closed"]
  ELSE IF Head(frames) = "timeout"
  THEN [loop EXCEPT !.end = "timeout", !.elapsed = @ + InvocationTimeoutTicks]
  ELSE IF Head(frames) = "closed"
  THEN [loop EXCEPT !.end = "closed", !.elapsed = @ + FrameGapTicks]
  ELSE receiveLoop(
         Tail(frames),
         processFrame(SubstrateFrame(Head(frames)),
                      [loop EXCEPT !.taken = Append(@, Head(frames)),
                                   !.elapsed = @ + FrameGapTicks],
                      onStreamUpdate),
         onStreamUpdate)

\* What the catch block makes of an error sendFrame throws, by whether its
\* message contains "timeout".
thrownFailure(outcome, id) ==
  chatCoreResult(IF outcome = "timeout" THEN "timeout" ELSE "exception",
                 <<>>, <<>>, FALSE, id)

\* The socket of a turn: its readyState, whether the keep-alive interval
\* runs, and the calls made of close and terminate.
NoSocket == [readyState |-> "none", keepAlive |-> FALSE, closeCalls |-> 0]

\* connectWebSocket: the socket is returned once open, with its keep-alive
\* timer running; on timeout it is terminated before it opened.
connectWebSocket(outcome) ==
  IF outcome = "open"
  THEN [readyState |-> "open", keepAlive |-> TRUE, closeCalls |-> 0]
  ELSE [readyState |-> "closed", keepAlive |-> FALSE, closeCalls |-> 0]

\* ws.close(): the socket leaves OPEN and its close event clears the
\* keep-alive interval.
wsCloseIgnored(ws) == ws

wsClose(ws) ==
  [ws EXCEPT !.readyState = "closed", !.keepAlive = FALSE,
             !.closeCalls = @ + 1]

\* The upstream closing the socket: the close event of the opened socket.
peerClose(ws) == [ws EXCEPT !.readyState = "closed", !.keepAlive = FALSE]

\* The try block of chatCore from the first sendFrame on.
chatCoreBody(turn, id, ws) ==
  IF turn.sendHandshake # "sent"
  THEN [chatResult |-> thrownFailure(turn.sendHandshake, id), ws |-> ws,
        loop |-> LoopStart, elapsed |-> 0]
  ELSE IF turn.handshake # "frame"
  THEN [chatResult |-> chatCoreResult("handshake_failed", <<>>, <<>>, FALSE, id),
        ws |-> IF turn.handshake = "closed" THEN peerClose(ws) ELSE ws,
        loop |-> LoopStart,
        elapsed |-> IF turn.handshake = "timeout" THEN InvocationTimeoutTicks
                    ELSE FrameGapTicks]
  ELSE IF turn.sendInvocation # "sent"
  THEN [chatResult |-> thrownFailure(turn.sendInvocation, id), ws |-> ws,
        loop |-> LoopStart, elapsed |-> FrameGapTicks]
  ELSE LET loop == receiveLoop(turn.frames, LoopStart, turn.onStreamUpdate)
           open == IF loop.end = "closed" THEN peerClose(ws) ELSE ws
       IN IF loop.end = "thrown"
          THEN [chatResult |-> thrownFailure("other", id), ws |-> open,
                loop |-> loop, elapsed |-> FrameGapTicks + loop.elapsed]
          ELSE [chatResult |-> chatCoreResult("none", loop.assistantText,
                                 loop.deltaBuilder, loop.responseError, id),
                ws |-> wsClose(open), loop |-> loop,
                elapsed |-> FrameGapTicks + loop.elapsed]

\* chatCore with the history of its turn: the result, the socket and the
\* receiver as it returns, the loop, and the ticks the socket was open.
substrateTurn(turn, id) ==
  LET ws == connectWebSocket(turn.connect)
  IN IF turn.connect # "open"
     THEN [chatResult |-> chatCoreResult("connect_failed", <<>>, <<>>, FALSE, id),
           ws |-> ws, opened |-> FALSE, disposed |-> FALSE, loop |-> LoopStart,
           elapsed |-> 0]
     ELSE LET body == chatCoreBody(turn, id, ws)
          IN [chatResult |-> body.chatResult,
              ws |-> wsClose(body.ws),      \* finally
              opened |-> TRUE, disposed |-> TRUE, loop |-> body.loop,
              elapsed |-> body.elapsed]

chatCore(turn, id) == substrateTurn(turn, id).chatResult

\* A turn and the status writeFromUpstreamFailure answers its failure with.
CallChatCore ==
  /\ lastCall.op = "none"
  /\ \E turn \in SubstrateTurns :
       LET result == substrateTurn(turn, ClientConversation)
       IN Called("chatCore", [turn |-> turn],
                 [chatResult |-> result.chatResult,
                  status |-> IF result.chatResult.isSuccess THEN 200
                             ELSE summarizeUpstreamFailure(result.chatResult.statusCode),
                  ws |-> result.ws, opened |-> result.opened,
                  disposed |-> result.disposed, loop |-> result.loop,
                  elapsed |-> result.elapsed])

SubstrateTurnNext == CallChatCore \/ CallReturns

SubstrateTurnSpec == Init /\ [][SubstrateTurnNext]_vars

\* The first event that ends the receive loop of a turn.
RECURSIVE C27_LoopEnd(_)
C27_LoopEnd(frames) ==
  IF frames = <<>> THEN "closed"
  ELSE IF Head(frames) \in NullEvents THEN Head(frames)
  ELSE IF isTerminalFrameType(SubstrateFrame(Head(frames)).type) THEN "completed"
  ELSE C27_LoopEnd(Tail(frames))

\* The step of the turn at which a timeout elapsed, if one did.
C27_TimedOut(turn) ==
  \/ turn.connect = "timeout"
  \/ turn.connect = "open" /\
       \/ turn.sendHandshake = "timeout"
       \/ turn.sendHandshake = "sent" /\
            \/ turn.handshake = "timeout"
            \/ turn.handshake = "frame" /\
                 \/ turn.sendInvocation = "timeout"
                 \/ turn.sendInvocation = "sent" /\ C27_LoopEnd(turn.frames) = "timeout"

\* C27: a Substrate turn that fails because a timeout elapsed is reported
\* with HTTP 504, a turn that fails for another reason with 502; a turn in
\* which no frame arrives within invocationTimeoutSeconds yields 504.
C27_TimeoutIs504 ==
  lastCall.op = "chatCore" =>
    LET turn == lastCall.key.turn
    IN /\ ~lastCall.result.chatResult.isSuccess =>
            lastCall.result.status = IF C27_TimedOut(turn) THEN 504 ELSE 502
       /\ (turn.connect = "open" /\ turn.sendHandshake = "sent"
             /\ turn.handshake = "frame" /\ turn.sendInvocation = "sent"
             /\ turn.frames = <<"timeout">>) =>
            lastCall.result.status = 504

\* ------------------------------------------------------- token provider
\* ProxyTokenProvider.resolveAuthorizationHeader. Times are seconds from now.

TOKEN_EXPIRY_SKEW == 60

NoHeader == <<>>

BearerHeader(token) == <<"Bearer", token>>

\* The Authorization header of a request: absent, blank, a token with the
\* Bearer scheme or a token alone.
InboundHeaders == {"absent", "blank", "Bearer in", "in"}

normalizeBearerToken(authorizationHeader) ==
  IF authorizationHeader \in {"absent", "blank"} THEN NoHeader
  ELSE BearerHeader("in")

\* The token file: absent, or a token (blank or not) with its expiry.
NoTokenState == [token |-> "", expiresIn |-> 0]

TokenStates(token) ==
  {NoTokenState}
    \cup [token : {token, ""},
          expiresIn : {TOKEN_EXPIRY_SKEW - 1, TOKEN_EXPIRY_SKEW, TOKEN_EXPIRY_SKEW + 1}]

isTokenStateValid(tokenState) ==
  /\ tokenState.token # ""
  /\ tokenState.expiresIn > TOKEN_EXPIRY_SKEW

tryGetCachedAuthorizationHeader(tokenState) ==
  IF isTokenStateValid(tokenState) THEN BearerHeader(tokenState.token) ELSE NoHeader

\* acquireFreshAuthorizationHeader: the fetch throws, or leaves a token file.
acquireFreshAuthorizationHeader(fetch) ==
  IF fetch.throws THEN NoHeader
  ELSE IF isTokenStateValid(fetch.fetched) THEN BearerHeader(fetch.fetched.token)
  ELSE NoHeader

Fetches == [throws : BOOLEAN, fetched : TokenStates("acquired")]

\* The provider takes no option: the header given is used whenever it
\* normalises to a token.
resolveAuthorizationHeader(rawAuthorizationHeader, tokenState, fetch) ==
  LET providedHeader == normalizeBearerToken(rawAuthorizationHeader)
      cachedHeader == tryGetCachedAuthorizationHeader(tokenState)
  IN IF providedHeader # NoHeader
     THEN [header |-> providedHeader, source |-> "inbound", acquired |-> FALSE]
     ELSE IF cachedHeader # NoHeader
     THEN [header |-> cachedHeader, source |-> "cached", acquired |-> FALSE]
     ELSE [header |-> acquireFreshAuthorizationHeader(fetch),
           source |-> "acquired", acquired |-> TRUE]

\* A request under a configuration: index.ts hands the provider the option
\* ignoreIncomingAuthorizationHeader, the handlers hand it the header.
CallResolveAuthorizationHeader ==
  /\ lastCall.op = "none"
  /\ \E ignoreIncomingAuthorizationHeader \in BOOLEAN, raw \in InboundHeaders,
        tokenState \in TokenStates("cached"), fetch \in Fetches :
       Called("resolveAuthorizationHeader",
              [ignoreIncomingAuthorizationHeader |-> ignoreIncomingAuthorizationHeader,
               rawAuthorizationHeader |-> raw, tokenState |-> tokenState,
               fetch |-> fetch],
              resolveAuthorizationHeader(raw, tokenState, fetch))

TokenNext == CallResolveAuthorizationHeader \/ CallReturns

TokenSpec == Init /\ [][TokenNext]_vars

\* C28: the authorization header is the inbound one if it is present and the
\* configuration does not ignore it; else the cached token if it expires more
\* than 60 seconds from now; else the acquired token. An ignored inbound
\* header is never used, and acquisition starts only when both earlier
\* sources gave nothing.
C28_StrictPriority ==
  lastCall.op = "resolveAuthorizationHeader" =>
    LET key == lastCall.key
        inbound == /\ key.rawAuthorizationHeader \notin {"absent", "blank"}
                   /\ ~key.ignoreIncomingAuthorizationHeader
        cached == /\ key.tokenState.token # ""
                  /\ key.tokenState.expiresIn > 60
    IN /\ lastCall.result.source =
            IF inbound THEN "inbound" ELSE IF cached THEN "cached" ELSE "acquired"
       /\ inbound => lastCall.result.header = BearerHeader("in")
       /\ (~inbound /\ cached) => lastCall.result.header = BearerHeader("cached")
       /\ key.ignoreIncomingAuthorizationHeader =>
            lastCall.result.header # BearerHeader("in")
       /\ lastCall.result.acquired <=> (~inbound /\ ~cached)

\* C26: a request with an empty tools list and tool_choice "required" is
\* answered with HTTP 400 whatever text the upstream returns: once the
\* assistant response of such a request is built, the answer is a 400.
C26_EmptyRequiredRejected ==
  (/\ pc = "done"
   /\ IsCompletionRequest
   /\ request.tooling.tools = <<>>
   /\ request.tooling.toolChoiceMode = "required"
   /\ assistantResponse.finishReason # "")
  => response.status = 400

\* --------------------------------------------- simulated chat completions

\* tryExtractSimulatedResponsePayload: the chat completion choice that the
\* assistant text of a simulated turn holds, NoPayload when it holds none.
\* Text <<"T">> is a completion whose message has a content, <<"w">> one
\* whose message has neither content nor tool calls; any other text holds
\* no completion.
NoPayload == [payload |-> FALSE]

tryExtractSimulatedResponsePayload(assistantText) ==
  IF assistantText = <<"T">>
  THEN [finish_reason |-> "",
        message |-> [content |-> <<"x">>, tool_calls |-> <<>>]]
  ELSE IF assistantText = <<"w">>
  THEN [finish_reason |-> "stop",
        message |-> [content |-> Undefined, tool_calls |-> <<>>]]
  ELSE NoPayload

\* normalizeSimulatedChatCompletionPayload, as handleChat applies it to the
\* extracted payload (`simulatedPayload ? normalize... : null`).
normalizeSimulatedChatCompletionPayload(payload) ==
  IF payload = NoPayload THEN NoPayload ELSE normalizeSimulatedChatChoice(payload)

\* The body of the 200 reply: JSON.stringify(normalized).
simulatedChatBody(normalized) ==
  [content |-> normalized.message.content,
   toolCalls |-> normalized.message.tool_calls,
   finishReason |-> normalized.finish_reason,
   strictToolErrorMessage |-> ""]

\* Non-streaming chat requests to a proxy whose openAiTransformMode is
\* "simulated".
SimulatedRequests ==
  {r \in [api : {"chat"}, transport : TransportNames, stream : {FALSE},
          tooling : {parseTooling(FALSE, "absent")},
          responseFormat : {FALSE},
          conversationId : {NoId, ClientConversation},
          conversationKey : {"", "k"},
          forceNewConversation : {FALSE},
          previousResponseId : {NoId}] : TRUE}

\* One awaited executeChatTurn of a simulated chat request comes back. pc =
\* "turn" is the first call of executeChatTurnWithRecovery, pc =
\* "simulatedRetry" the call made when the first gave no usable payload;
\* `recovered` tells whether the running call has made its recovery.
SimulatedTurnCompletes ==
  /\ pc \in {"turn", "simulatedRetry"}
  /\ \E result \in (IF request.transport = "substrate"
                    THEN SubstrateChatResults(conversationId,
                           {conversationId, UpstreamConversation}, <<>>, FALSE)
                    ELSE GraphChatResults) :
     \E normalized \in {normalizeSimulatedChatCompletionPayload(
                           tryExtractSimulatedResponsePayload(result.assistantText))} :
       LET scoped == scopeConversationKey(request.conversationKey, request.transport)
           id == IF result.conversationId # NoId THEN result.conversationId
                 ELSE conversationId
           headers == [responseHeaders EXCEPT !.conversationId = id]
           conversations == IF result.conversationId # NoId
                            THEN ConversationSet(conversationStore, scoped, id, now)
                            ELSE conversationStore
           owners == IF result.conversationId # NoId /\ scoped # NoKey
                     THEN RecordOwner(conversationOwners, id, request.transport)
                     ELSE conversationOwners
           usable == /\ normalized # NoPayload
                     /\ hasUsableSimulatedChatCompletionPayload(normalized)
       IN IF /\ ~recovered
             /\ shouldRetrySubstrateNoAssistantContent(
                  request.transport, createdConversation, result)
          THEN /\ nextConversation <= MaxConversations
               /\ conversationId' = nextConversation
               /\ nextConversation' = nextConversation + 1
               /\ createdConversation' = TRUE
               /\ responseHeaders' = recoveryHeaders(nextConversation)
               /\ conversationStore' =
                    ConversationSet(conversationStore, scoped, nextConversation, now)
               /\ recovered' = TRUE
               /\ conversationOwners' =
                    RecordOwner(conversationOwners, nextConversation, request.transport)
               /\ turnLog' = Append(turnLog, TurnRecord(nextConversation, TRUE, FALSE, <<>>))
               /\ UNCHANGED <<pc, response, upstreamFailure>>
          ELSE IF ~result.isSuccess
          THEN /\ response' = ErrorResponse(
                                summarizeUpstreamFailure(result.statusCode),
                                IF request.transport = "substrate"
                                THEN "substrate_error" ELSE "graph_error")
               /\ pc' = "done"
               /\ upstreamFailure' = FailureRecord(FALSE, <<>>)
               /\ UNCHANGED <<conversationStore, nextConversation, conversationId,
                              createdConversation, responseHeaders, recovered,
                              turnLog, conversationOwners>>
          ELSE IF ~usable /\ pc = "turn"
          THEN /\ conversationId' = id
               /\ responseHeaders' = headers
               /\ conversationStore' = conversations
               /\ conversationOwners' = owners
               /\ recovered' = FALSE
               /\ turnLog' = Append(turnLog, TurnRecord(id, createdConversation, FALSE, <<>>))
               /\ pc' = "simulatedRetry"
               /\ UNCHANGED <<nextConversation, createdConversation, response,
                              upstreamFailure>>
          ELSE /\ conversationId' = id
               /\ responseHeaders' = headers
               /\ conversationStore' = conversations
               /\ conversationOwners' = owners
               /\ response' = IF usable
                              THEN OkResponse("json", headers, simulatedChatBody(normalized))
                              ELSE ErrorResponse(502, "invalid_simulated_payload")
               /\ pc' = "done"
               /\ UNCHANGED <<nextConversation, createdConversation, recovered,
                              turnLog, upstreamFailure>>
  /\ UNCHANGED <<now, request, responseStore, nextResponse, assistantResponse, out,
                 streamState, responseId, strictRetried, emitted, streamInitialized,
                 streamEvents, createdAt, served, resolution, upstreamLog, labVars>>

SimulatedChatNext ==
  \/ ArriveOver(SimulatedRequests)
  \/ SimulatedTurnCompletes
  \/ Release

SimulatedChatSpec == Init /\ [][SimulatedChatNext]_vars

\* The conversations this request has created for a recovery retry: those
\* created since it arrived, less the one its resolution created.
C29_RetryConversations ==
  (nextConversation - resolution.before.nextConversation)
    - (IF resolution.created THEN 1 ELSE 0)

C29_WitnessSecondCall ==
  /\ pc = "simulatedRetry"
  /\ recovered
  /\ C29_RetryConversations = 2

\* C30: a Substrate request in strict mode whose first turn produced no
\* valid tool call has its turn re-executed once by the strict-tool retry,
\* and is answered HTTP 400 when the retried result violates strict mode
\* too; no request on Graph and no request outside strict mode is retried.
C30_StrictRetryOnce ==
  /\ (/\ pc = "done"
      /\ IsCompletionRequest
      /\ request.transport = "substrate"
      /\ request.tooling.tools # <<>>
      /\ request.tooling.toolChoiceMode \in {"required", "function"}
      /\ assistantResponse.finishReason # ""
      /\ assistantResponse.toolCalls = <<>>)
     => /\ strictRetried
        /\ response.status = 400
  /\ strictRetried
     => /\ request.transport = "substrate"
        /\ request.tooling.toolChoiceMode \in {"required", "function"}

\* ------------------------------------------- claims on the Substrate turn

\* The turn of the last chatCore call ran its receive loop to an end other
\* than an exception.
C31_LoopRan ==
  /\ lastCall.op = "chatCore"
  /\ lastCall.result.loop.end \in {"completed", "timeout", "closed"}

\* The frames the loop took that carry an error field, or a result.value
\* other than Success or ApologyResponseReturned in any case.
C31_ErrorSeen ==
  \E i \in DOMAIN lastCall.result.loop.taken :
    lastCall.result.loop.taken[i] \in {"error_frame", "failed_result", "failed_message"}

\* The frames that yield an assistant text: a bot message text or a
\* result message.
C31_TextSeen ==
  \E i \in DOMAIN lastCall.result.loop.taken :
    lastCall.result.loop.taken[i] \in {"text", "text2", "failed_message", "completed_message"}

C31_DeltaSeen ==
  \E i \in DOMAIN lastCall.result.loop.taken :
    lastCall.result.loop.taken[i] \in {"delta", "delta2"}

C31_WitnessApology ==
  /\ C31_LoopRan
  /\ lastCall.key.turn.frames = <<"delta", "apology", "completed">>
  /\ lastCall.result.chatResult.isSuccess

\* The text of the last frame among `taken` whose name is in `names`, as
\* `textOf` gives it; <<>> when there is none.
RECURSIVE C32_LastOf(_, _)
C32_LastOf(taken, names) ==
  IF taken = <<>> THEN <<>>
  ELSE IF taken[Len(taken)] \in DOMAIN names THEN names[taken[Len(taken)]]
  ELSE C32_LastOf(SubSeq(taken, 1, Len(taken) - 1), names)

\* The writeAtCursor deltas of the frames taken, in arrival order.
RECURSIVE C32_Deltas(_)
C32_Deltas(taken) ==
  IF taken = <<>> THEN <<>>
  ELSE (IF Head(taken) = "delta" THEN <<"d">>
        ELSE IF Head(taken) = "delta2" THEN <<"e">> ELSE <<>>)
       \o C32_Deltas(Tail(taken))

C32_BotTexts == [text |-> <<"x">>, text2 |-> <<"y">>]

C32_AssistantTexts ==
  [text |-> <<"x">>, text2 |-> <<"y">>, failed_message |-> <<"m">>,
   completed_message |-> <<"m">>]

\* C32 (as stated): the final assistant text of a turn is the text of the
\* last frame that contained a bot message text, if any frame did, and
\* otherwise the concatenation of all writeAtCursor deltas in arrival order.
C32_LastBotTextElseDeltas ==
  (lastCall.op = "chatCore" /\ lastCall.result.chatResult.isSuccess) =>
    LET taken == lastCall.result.loop.taken
        last == C32_LastOf(taken, C32_BotTexts)
    IN lastCall.result.chatResult.assistantText =
         IF last # <<>> THEN last ELSE C32_Deltas(taken)

\* C32 (amended): the final assistant text of a successful turn is the
\* text of the last frame that yielded an assistant text (its bot message
\* text, else its result message), if any frame did, and otherwise the
\* concatenation of all writeAtCursor deltas in arrival order.
C32_LastAssistantTextElseDeltas ==
  (lastCall.op = "chatCore" /\ lastCall.result.chatResult.isSuccess) =>
    LET taken == lastCall.result.loop.taken
        last == C32_LastOf(taken, C32_AssistantTexts)
    IN lastCall.result.chatResult.assistantText =
         IF last # <<>> THEN last ELSE C32_Deltas(taken)

\* Two bot message texts after a delta: the last text is the result.
C32_Witness ==
  /\ lastCall.op = "chatCore"
  /\ lastCall.key.turn.frames = <<"delta", "text", "text2">>
  /\ lastCall.result.chatResult.assistantText = <<"y">>

\* Deltas alone: their concatenation is the result.
C32_WitnessDeltas ==
  /\ lastCall.op = "chatCore"
  /\ lastCall.key.turn.frames = <<"delta2", "delta", "completed">>
  /\ lastCall.result.chatResult.assistantText = <<"e", "d">>

\* A result message after deltas: the message is the result.
C32_WitnessResultMessage ==
  /\ lastCall.op = "chatCore"
  /\ lastCall.key.turn.frames = <<"delta", "completed_message">>
  /\ lastCall.result.chatResult.assistantText = <<"m">>

C33_TerminalFrames == {"completed", "completed_message", "completed3", "completed7"}

\* The frames of a turn up to and including its first terminal frame, or
\* up to its first null event.
RECURSIVE C33_UntilEnd(_)
C33_UntilEnd(frames) ==
  IF frames = <<>> \/ Head(frames) \in NullEvents THEN <<>>
  ELSE IF Head(frames) \in C33_TerminalFrames THEN <<Head(frames)>>
  ELSE <<Head(frames)>> \o C33_UntilEnd(Tail(frames))

C33_WitnessTimeout ==
  /\ lastCall.op = "chatCore"
  /\ lastCall.key.turn.frames = <<"delta", "update", "timeout">>
  /\ lastCall.result.loop.end = "timeout"

\* C34: the time the receive loop of a Substrate turn lasts never exceeds
\* the invocation timeout, even when non-terminal frames keep arriving at
\* shorter intervals.
C34_TimeoutBoundsTurn ==
  lastCall.op = "chatCore" =>
    lastCall.result.loop.elapsed <= InvocationTimeoutTicks

\* C35: when chatCore returns, on any path, the socket it opened is no
\* longer open, its keep-alive interval is cleared and its receiver is
\* disposed.
C35_SocketClosedOnEveryExit ==
  (lastCall.op = "chatCore" /\ lastCall.result.opened) =>
    /\ lastCall.result.ws.readyState = "closed"
    /\ ~lastCall.result.ws.keepAlive
    /\ lastCall.result.ws.closeCalls >= 1
    /\ lastCall.result.disposed

\* The streaming handler throws on a delta while the socket is open.
C35_Witness ==
  /\ lastCall.op = "chatCore"
  /\ lastCall.result.opened
  /\ lastCall.key.turn.onStreamUpdate = "throws"
  /\ lastCall.result.loop.end = "thrown"
  /\ ~lastCall.result.chatResult.isSuccess

\* The exits by success, handshake failure, upstream error and timeout.
C35_WitnessSuccess ==
  /\ lastCall.op = "chatCore"
  /\ lastCall.result.opened
  /\ lastCall.result.chatResult.isSuccess

C35_WitnessHandshake ==
  /\ lastCall.op = "chatCore"
  /\ lastCall.result.opened
  /\ lastCall.key.turn.handshake = "timeout"

C35_WitnessTimeout ==
  /\ lastCall.op = "chatCore"
  /\ lastCall.result.opened
  /\ lastCall.result.loop.end = "timeout"
  /\ lastCall.result.loop.responseError

\* ------------------------------------------------- websocket receiver
\* createWebSocketReceiver: the queue and the waiters of the closure, with
\* the payloads the socket emitted while its listeners were attached
\* (arrived), the values next() resolved with (delivered), the payloads that
\* went through the queue (queued), the calls of next() and the close and
\* error events of the socket (ends).

MaxPayloads == 3

MaxNextCalls == 4

MaxSocketEnds == 2

Payloads == {"a", "b"}

NullPayload == "null"

\* A listener that keeps a value only for a call of next() that is waiting.
flushToWaiter(rcv, value) ==
  IF rcv.waiters > 0
  THEN [rcv EXCEPT !.waiters = @ - 1, !.delivered = Append(@, value)]
  ELSE rcv

flush(rcv, value) ==
  IF rcv.waiters > 0
  THEN [rcv EXCEPT !.waiters = @ - 1, !.delivered = Append(@, value)]
  ELSE [rcv EXCEPT !.queue = Append(@, value),
                   !.queued = @ + (IF value = NullPayload THEN 0 ELSE 1)]

CreateReceiver ==
  /\ ~receiver.created
  /\ receiver' = [NoReceiver EXCEPT !.created = TRUE]
  /\ UNCHANGED <<pureVars, lastCall, tokenProvider>>

\* onMessage, while the listener is attached.
OnMessage ==
  /\ receiver.created /\ ~receiver.disposed
  /\ Len(receiver.arrived) < MaxPayloads
  /\ \E payload \in Payloads :
       receiver' = flush([receiver EXCEPT !.arrived = Append(@, payload)],
                         payload)
  /\ UNCHANGED <<pureVars, lastCall, tokenProvider>>

\* onClose and onError, while the listeners are attached.
OnCloseOrError ==
  /\ receiver.created /\ ~receiver.disposed
  /\ receiver.ends < MaxSocketEnds
  /\ receiver' = flush([receiver EXCEPT !.ends = @ + 1], NullPayload)
  /\ UNCHANGED <<pureVars, lastCall, tokenProvider>>

\* next(timeoutMs), called by a loop that awaits each call before the next.
ReceiverNext ==
  /\ receiver.created /\ receiver.waiters = 0
  /\ receiver.calls < MaxNextCalls
  /\ receiver' =
       IF receiver.queue # <<>>
       THEN [receiver EXCEPT !.calls = @ + 1, !.queue = Tail(@),
                             !.delivered = Append(@, Head(receiver.queue))]
       ELSE IF receiver.disposed
       THEN [receiver EXCEPT !.calls = @ + 1,
                             !.delivered = Append(@, NullPayload)]
       ELSE [receiver EXCEPT !.calls = @ + 1, !.waiters = 1]
  /\ UNCHANGED <<pureVars, lastCall, tokenProvider>>

\* The timer of a waiting call fires.
WaiterTimeout ==
  /\ receiver.waiters > 0
  /\ receiver' = [receiver EXCEPT !.waiters = @ - 1,
                                  !.delivered = Append(@, NullPayload)]
  /\ UNCHANGED <<pureVars, lastCall, tokenProvider>>

ReceiverDispose ==
  /\ receiver.created /\ ~receiver.disposed
  /\ receiver' = [receiver EXCEPT
       !.disposed = TRUE, !.waiters = 0, !.queue = <<>>,
       !.delivered = @ \o [i \in 1..receiver.waiters |-> NullPayload]]
  /\ UNCHANGED <<pureVars, lastCall, tokenProvider>>

\* chatCore returns and drops the closure.
ReceiverDropped ==
  /\ receiver.disposed
  /\ receiver' = NoReceiver
  /\ UNCHANGED <<pureVars, lastCall, tokenProvider>>

ReceiverSpecNext ==
  \/ CreateReceiver \/ OnMessage \/ OnCloseOrError \/ ReceiverNext
  \/ WaiterTimeout \/ ReceiverDispose \/ ReceiverDropped

ReceiverSpec == Init /\ [][ReceiverSpecNext]_vars

C40_Payloads(values) == SelectSeq(values, LAMBDA value : value # NullPayload)

MaxAcquisitions == 3

AcquisitionOutcomes == {"token", "none", "threw", "rejected"}

\* A provider that starts an acquisition of its own for every caller.
freshAcquire(inFlightAcquirePromise, fresh) == fresh

\* this.inFlightAcquirePromise ?? this.acquireFreshAuthorizationHeader()
pendingAcquireFor(inFlightAcquirePromise, fresh) ==
  IF inFlightAcquirePromise # 0 THEN inFlightAcquirePromise ELSE fresh

\* A finally block that leaves the slot as it is.
slotKept(inFlightAcquirePromise, pendingAcquire) == inFlightAcquirePromise

\* finally: the slot is cleared if it still holds the awaited promise.
slotAfterFinally(inFlightAcquirePromise, pendingAcquire) ==
  IF inFlightAcquirePromise = pendingAcquire THEN 0 ELSE inFlightAcquirePromise

\* What a caller gets of a promise that rejected: the error, thrown.
Thrown == <<"thrown">>

\* What the promise of an acquisition settles with.
settledPromise(outcome) ==
  IF outcome = "rejected" THEN [state |-> "rejected", header |-> NoHeader]
  ELSE [state |-> "fulfilled",
        header |-> acquireFreshAuthorizationHeader(
                     [throws |-> outcome = "threw",
                      fetched |-> IF outcome = "token"
                                  THEN [token |-> "acquired",
                                        expiresIn |-> TOKEN_EXPIRY_SKEW + 1]
                                  ELSE NoTokenState])]

\* resolveAuthorizationHeader up to its first await.
CallerArrives ==
  /\ \E caller \in 1..MaxCallers, raw \in InboundHeaders :
       /\ tokenProvider.callers[caller].pc = "idle"
       /\ tokenProvider' =
            IF normalizeBearerToken(raw) # NoHeader
            THEN [tokenProvider EXCEPT
                    !.callers[caller].pc = "done",
                    !.callers[caller].result = normalizeBearerToken(raw)]
            ELSE [tokenProvider EXCEPT !.callers[caller].pc = "cache"]
  /\ UNCHANGED <<pureVars, lastCall, receiver>>

\* tryGetCachedAuthorizationHeader reads the token file.
CacheRead ==
  /\ \E caller \in 1..MaxCallers :
       /\ tokenProvider.callers[caller].pc = "cache"
       /\ tokenProvider' =
            IF tokenProvider.tokenValid
            THEN [tokenProvider EXCEPT
                    !.callers[caller].pc = "done",
                    !.callers[caller].result = BearerHeader("cached")]
            ELSE [tokenProvider EXCEPT !.callers[caller].pc = "miss"]
  /\ UNCHANGED <<pureVars, lastCall, receiver>>

\* acquireAuthorizationHeader up to its await.
AcquireAuthorizationHeader ==
  /\ \E caller \in 1..MaxCallers :
       LET slot == tokenProvider.inFlightAcquirePromise
           fresh == Len(tokenProvider.promises) + 1
           pendingAcquire == pendingAcquireFor(slot, fresh)
       IN /\ tokenProvider.callers[caller].pc = "miss"
          /\ pendingAcquire = fresh => fresh <= MaxAcquisitions
          /\ tokenProvider' = [tokenProvider EXCEPT
               !.promises = IF pendingAcquire = fresh
                            THEN Append(@, [state |-> "pending",
                                            header |-> NoHeader])
                            ELSE @,
               !.inFlightAcquirePromise = IF slot = 0 THEN pendingAcquire ELSE @,
               !.callers[caller] =
                  [pc |-> "awaiting", pendingAcquire |-> pendingAcquire,
                   slotAtEntry |-> slot, started |-> pendingAcquire = fresh,
                   result |-> NoHeader]]
  /\ UNCHANGED <<pureVars, lastCall, receiver>>

\* acquireFreshAuthorizationHeader settles: the subprocess left a valid
\* token, left none, threw, or the token file could not be read.
AcquisitionSettles ==
  /\ \E promise \in 1..Len(tokenProvider.promises),
        outcome \in AcquisitionOutcomes :
       /\ tokenProvider.promises[promise].state = "pending"
       /\ tokenProvider' = [tokenProvider EXCEPT
            !.promises[promise] = settledPromise(outcome),
            !.tokenValid = IF outcome = "token" THEN TRUE ELSE @]
  /\ UNCHANGED <<pureVars, lastCall, receiver>>

\* The await of pendingAcquire resumes, and the finally block runs.
CallerResumes ==
  /\ \E caller \in 1..MaxCallers :
       LET self == tokenProvider.callers[caller]
           promise == tokenProvider.promises[self.pendingAcquire]
       IN /\ self.pc = "awaiting"
          /\ promise.state # "pending"
          /\ tokenProvider' = [tokenProvider EXCEPT
               !.inFlightAcquirePromise =
                  slotAfterFinally(@, self.pendingAcquire),
               !.callers[caller].pc = "done",
               !.callers[caller].result =
                  IF promise.state = "rejected" THEN Thrown
                  ELSE promise.header]
  /\ UNCHANGED <<pureVars, lastCall, receiver>>

\* The caller has its header; it calls again on its next request.
CallerReturns ==
  /\ \E caller \in 1..MaxCallers :
       /\ tokenProvider.callers[caller].pc = "done"
       /\ tokenProvider' = [tokenProvider EXCEPT !.callers[caller] = NoCaller]
  /\ UNCHANGED <<pureVars, lastCall, receiver>>

\* The cached token comes within the skew of its expiry.
TokenExpires ==
  /\ tokenProvider.tokenValid
  /\ tokenProvider' = [tokenProvider EXCEPT !.tokenValid = FALSE]
  /\ UNCHANGED <<pureVars, lastCall, receiver>>

AcquireNext ==
  \/ CallerArrives \/ CacheRead \/ AcquireAuthorizationHeader
  \/ AcquisitionSettles \/ CallerResumes \/ CallerReturns \/ TokenExpires

AcquireSpec == Init /\ [][AcquireNext]_vars

C36_Pending ==
  {promise \in 1..Len(tokenProvider.promises) :
     tokenProvider.promises[promise].state = "pending"}

\* The callers that went through acquireAuthorizationHeader.
C36_Acquirers ==
  {caller \in 1..MaxCallers :
     tokenProvider.callers[caller].pendingAcquire # 0}

\* C36: at most one acquisition runs at a time; a caller that finds an
\* acquisition in the slot starts none, awaits that one and returns what it
\* settled with.
C36_SingleFlight ==
  /\ Cardinality(C36_Pending) <= 1
  /\ \A caller \in C36_Acquirers :
       LET self == tokenProvider.callers[caller]
           promise == tokenProvider.promises[self.pendingAcquire]
       IN /\ self.slotAtEntry # 0 =>
               (~self.started /\ self.pendingAcquire = self.slotAtEntry)
          /\ self.pc = "done" =>
               self.result = IF promise.state = "rejected" THEN Thrown
                             ELSE promise.header

\* Two callers have returned the token of one acquisition, which the first
\* started and the second joined.
C36_Witness ==
  \E first, second \in C36_Acquirers :
    LET a == tokenProvider.callers[first]
        b == tokenProvider.callers[second]
    IN /\ a.pc = "done" /\ b.pc = "done"
       /\ a.started /\ ~b.started
       /\ a.pendingAcquire = b.pendingAcquire
       /\ a.result = BearerHeader("acquired")
       /\ b.result = BearerHeader("acquired")

C37_WitnessToken ==
  /\ Len(tokenProvider.promises) = 2
  /\ tokenProvider.promises[1] = settledPromise("token")
  /\ tokenProvider.inFlightAcquirePromise = 2

C37_WitnessRejected ==
  /\ Len(tokenProvider.promises) = 2
  /\ tokenProvider.promises[1] = settledPromise("rejected")
  /\ tokenProvider.inFlightAcquirePromise = 2

\* --------------------------------- claims on the conversation a reply names

\* A chat or Responses request with a conversation key has completed with
\* a 200 reply whose body, if streamed, was closed without an upstream
\* failure.
C38_Completed ==
  /\ pc = "done"
  /\ IsCompletionRequest
  /\ request.conversationKey # ""
  /\ response.status = 200
  /\ streamState \in {"none", "closed"}
  /\ ~upstreamFailure.occurred

C38_ScopedKey == scopeConversationKey(request.conversationKey, request.transport)

\* C38: after a successfully completed request with a conversation key the
\* conversation store maps the scoped key to the conversation id the final
\* turn resolved to, and x-m365-conversation-id names the same id.
C38_StoreAndHeaderNameFinalId ==
  C38_Completed =>
    /\ C38_ScopedKey \in DOMAIN conversationStore
    /\ conversationStore[C38_ScopedKey].conversationId = conversationId
    /\ response.conversationIdHeader = conversationId

\* ------------------------------------------- live streams, run to their end

\* The start callback of a response stream runs on the event loop until it
\* returns or throws, and the upstream stream it reads ends or fails: a step
\* of the request in flight that stays possible is eventually taken.
StreamFairSpec == StreamSpec /\ WF_vars(StreamNext)

\* C39: every response stream the proxy opens is eventually closed by the
\* proxy, whether the upstream completes, fails, or reading it throws.
C39_StreamEventuallyClosed ==
  (streamState = "open") ~> (streamState = "closed")

\* Every opened stream comes to an end, closed or errored.
C39_StreamEventuallyEnds ==
  (streamState = "open") ~> (streamState \in {"closed", "errored"})

====
